---- MODULE Spec2Model ----
(***************************************************************************)
(* A model of the boot-script service of OpenCHAMI/boot-service: the       *)
(* script cache (pkg/controllers/bootscript/cache.go), the node resolver   *)
(* of the HSM integration service (pkg/clients/hsm/integration.go) with    *)
(* the HSM client and its response cache (pkg/clients/hsm/client.go), and  *)
(* the boot-script controller that ties them together; the declarative-    *)
(* file provider (pkg/clients/local/yaml_provider.go); and the two         *)
(* synchronizers that copy the HSM's and the file's nodes into the store.  *)
(*                                                                         *)
(* Time is a natural-number clock `now`; one unit stands for one tick of   *)
(* time.Now().  Each component has a specification of its own; a           *)
(* specification keeps the variables of the other components at their      *)
(* initial values.                                                         *)
(***************************************************************************)
EXTENDS Naturals, Integers, Sequences, FiniteSets, TLC

VARIABLES
    now,        \* the wall clock read by time.Now()
    ttl,        \* ScriptCache.ttl
    entries,    \* ScriptCache.entries: cache key -> CacheEntry
    sweepAt,    \* the time of the next tick of cleanup()'s ticker
    ret,        \* the value returned by the ScriptCache call that just returned
    lastSet,    \* history: per cache key, what the last Set stored and whether
                \* it was invalidated since
    pc,         \* per goroutine: the ScriptCache method it runs and where it is
    rlocked,    \* the goroutines that hold ScriptCache.mu for reading (RLock)
    wlocked,    \* the goroutine that holds ScriptCache.mu for writing (Lock)
    writing,    \* the goroutines that are in the middle of a write of the map
    fatal,      \* the Go runtime ended the process: "concurrent map writes"
    store,      \* the boot service's node store, as bootClient.GetNodes reads it
    hsm,        \* the HSM server: its components and ethernet interfaces
    hsmCache,   \* HSMClient.cache: the components and ethernetInterfaces maps
    resolved,   \* what the ResolveNodeByIdentifier call that just returned did
    configs,    \* the boot configurations of the store, in enumeration order
    response,   \* what the GenerateBootScript call that just returned did
    history,    \* history: per identifier, the last call that generated a
                \* script (rather than serving one from the cache)
    yamlFile,   \* the YAML file at YAMLNodeProvider.filePath
    yamlNodes,  \* YAMLNodeProvider.nodes: the index, identifier -> YAMLNode
    autoReload, \* YAMLNodeProvider.autoReload
    lastGood,   \* history: the nodes of the file that loadNodes parsed last
    yamlRet,    \* what the YAMLNodeProvider call that just returned did
    authToken,  \* HSMConfig.AuthToken
    called,     \* what the HSMClient call that just returned did
    fetchedAt,  \* history: per cache key of the HSM client, the time of the
                \* last fetch that the server answered, since the last
                \* ClearCache
    synced,     \* what the synchronization run that just returned did
    ctxDone,    \* runServe's ctx was cancelled: ctx.Done() is closed
    serve,      \* where runServe is
    shutdown,   \* where the goroutine of runServe that waits for a signal is
    syncEnabled,\* IntegrationService.syncEnabled
    worker,     \* where the goroutine that runs StartSyncWorker is
    tickerC,    \* the ticks buffered in the channel of StartSyncWorker's ticker
    sweeper,    \* where the goroutine that runs ScriptCache.cleanup is
    cycle,      \* history: what the last sync cycle of the worker did
    matchNode,  \* the node Match is called with
    matchConfigs, \* the configurations Match is called with, in input order
    matched,    \* what the call of Match that just returned gave
    run,        \* the SyncNodesFromHSM call in progress: where it is, and its
                \* locals existingMap, macMap and the compute nodes to go
    opLog,      \* history: per node name, what an operator wrote while the
                \* call in progress had listed the nodes and not yet synced
                \* that node
    heap,       \* the maps HSMClient.cache.components has pointed to, the
                \* current one last
    flight,     \* per goroutine: where its GetComponents call is, and the map
                \* its argument c.cache.components evaluated to
    lastFetch,  \* history: the map the last Set since the last ClearCache
                \* wrote into
    keyed       \* the call of generateCacheKey: its arguments, and the key it
                \* returned

cacheVars == <<ttl, entries, sweepAt, ret, lastSet>>

lockVars == <<pc, rlocked, wlocked, writing, fatal>>

resolveVars == <<store, hsm, hsmCache, resolved>>

genVars == <<configs, response, history>>

yamlVars == <<yamlFile, yamlNodes, autoReload, lastGood, yamlRet>>

clientVars == <<authToken, called, fetchedAt>>

\* The providers' own state and the synchronizer's.
providerVars == <<yamlVars, clientVars, synced>>

workerVars == <<ctxDone, serve, shutdown, syncEnabled, worker, tickerC,
                sweeper, cycle>>

\* The goroutines of the running service.
matchVars == <<matchNode, matchConfigs, matched>>

raceVars == <<run, opLog>>

flightVars == <<heap, flight, lastFetch>>

keyVars == <<keyed>>

serviceVars == <<workerVars, matchVars, raceVars, flightVars, keyVars>>

vars == <<now, cacheVars, lockVars, resolveVars, genVars, providerVars,
          serviceVars>>

\* What a call of a ScriptCache method from a single caller leaves alone.
outsideCache == <<lockVars, resolveVars, genVars, providerVars, serviceVars>>

\* What a statement of a ScriptCache method under concurrent callers leaves
\* alone.
outsideLock == <<resolveVars, genVars, providerVars, serviceVars>>

\* What a call of the resolver, or a change of the data it reads, leaves
\* alone.
outsideResolve == <<cacheVars, lockVars, configs, history, providerVars,
                    serviceVars>>

\* What a step of a goroutine of the running service leaves alone.
outsideWorker == <<lockVars, genVars, providerVars, matchVars, raceVars,
                   flightVars, keyVars>>

\* What a call of Match leaves alone.
outsideMatch == <<now, cacheVars, lockVars, resolveVars, genVars, providerVars,
                  workerVars, raceVars, flightVars, keyVars>>

\* What a step of a synchronization run, or a write of an operator, leaves
\* alone.
outsideRace == <<now, cacheVars, lockVars, genVars, providerVars, workerVars,
                 matchVars, flightVars, keyVars>>

\* What a step of a call of the HSM client leaves alone.
outsideFlight == <<now, cacheVars, lockVars, genVars, providerVars, workerVars,
                   matchVars, raceVars, keyVars>>

\* What a call of generateCacheKey leaves alone.
outsideKey == <<now, cacheVars, lockVars, resolveVars, genVars, providerVars,
                workerVars, matchVars, raceVars, flightVars>>

----------------------------------------------------------------------------
(* Bounds of the model. *)

\* The clock runs from 0 to MaxTime.
MaxTime == 4

\* The TTLs a cache is constructed with: 2 .. MaxTTL.
MaxTTL == 3

----------------------------------------------------------------------------
(* The script cache. *)

CacheKeys == {"n1:default", "n2:c1"}
Scripts   == {"s1", "s2"}
NodeIDs   == {"n1", "n2"}
ConfigIDs == {"c1", "c2"}

\* time.NewTicker panics on a non-positive interval, so a cache that can be
\* constructed has ttl / 2 >= 1.
TTLs == 2..MaxTTL

NoRet == [op |-> "none"]

\* CacheEntry{Script, GeneratedAt, ExpiresAt, NodeID, ConfigID}
CacheEntry(script, t, nodeID, configID) ==
    [Script |-> script, GeneratedAt |-> t, ExpiresAt |-> t + ttl,
     NodeID |-> nodeID, ConfigID |-> configID]

\* time.Now().After(entry.ExpiresAt), with t the value of time.Now()
ExpiredMutBefore(entry, t) == t < entry.ExpiresAt
ExpiredMutAlways(entry, t) == TRUE
ExpiredMutNotBefore(entry, t) == t >= entry.ExpiresAt
Expired(entry, t) == t > entry.ExpiresAt

\* delete(c.entries, key) for every key of ks
DeleteKeys(m, ks) == [k \in DOMAIN m \ ks |-> m[k]]

\* The history of a key that was never set, or whose last Set was invalidated.
NeverSet == [status |-> "none"]
Invalidated(how) == [status |-> how]

\* NewScriptCache(ttl): an empty map, and the cleanup goroutine's ticker
\* started with period ttl / 2.
NewScriptCache(t) ==
    /\ ttl = t
    /\ entries = <<>>
    /\ sweepAt = now + (t \div 2)
    /\ ret = NoRet
    /\ lastSet = [k \in CacheKeys |-> NeverSet]

\* Get on the map m at time t: what it returns and the map it leaves.  A
\* missing key and an expired entry are both reported absent; the expired
\* entry is deleted from the map.
GetOf(m, cacheKey, t) ==
    IF cacheKey \notin DOMAIN m
      THEN [script |-> "", found |-> FALSE, entries |-> m]
      ELSE IF Expired(m[cacheKey], t)
             THEN [script |-> "", found |-> FALSE, entries |-> DeleteKeys(m, {cacheKey})]
             ELSE [script |-> m[cacheKey].Script, found |-> TRUE, entries |-> m]

\* Set on the map m at time t: the map it leaves.
SetOfMutDrop(m, cacheKey, script, nodeID, configID, t) == m
SetOf(m, cacheKey, script, nodeID, configID, t) ==
    (cacheKey :> CacheEntry(script, t, nodeID, configID)) @@ m

Get(cacheKey) ==
    /\ LET r == GetOf(entries, cacheKey, now)
       IN  /\ entries' = r.entries
           /\ ret' = [op |-> "Get", key |-> cacheKey, script |-> r.script, found |-> r.found]
    /\ UNCHANGED <<now, ttl, sweepAt, lastSet, outsideCache>>

\* Set: the entry expires ttl after the time of the call.
Set(cacheKey, script, nodeID, configID) ==
    /\ entries' = SetOf(entries, cacheKey, script, nodeID, configID, now)
    /\ lastSet' = [lastSet EXCEPT ![cacheKey] =
                      [status |-> "live", at |-> now, script |-> script,
                       node |-> nodeID, cfg |-> configID]]
    /\ ret' = NoRet
    /\ UNCHANGED <<now, ttl, sweepAt, outsideCache>>

Invalidate(cacheKey) ==
    /\ entries' = DeleteKeys(entries, {cacheKey})
    /\ lastSet' = [lastSet EXCEPT ![cacheKey] =
                      IF @.status = "live" THEN Invalidated("byKey") ELSE @]
    /\ ret' = NoRet
    /\ UNCHANGED <<now, ttl, sweepAt, outsideCache>>

\* The keys InvalidateByNodeID deletes: those whose entry names the node.
NodeKeysMutConfig(m, nodeID) == {k \in DOMAIN m : m[k].ConfigID = nodeID}
NodeKeysMutNone(m, nodeID) == {}
NodeKeys(m, nodeID) == {k \in DOMAIN m : m[k].NodeID = nodeID}

InvalidateByNodeID(nodeID) ==
    /\ entries' = DeleteKeys(entries, NodeKeys(entries, nodeID))
    /\ lastSet' = [k \in CacheKeys |->
                      IF lastSet[k].status = "live" /\ lastSet[k].node = nodeID
                        THEN Invalidated("byNode") ELSE lastSet[k]]
    /\ ret' = NoRet
    /\ UNCHANGED <<now, ttl, sweepAt, outsideCache>>

ConfigKeysMutAll(m, configID) == DOMAIN m

\* The keys InvalidateByConfigID deletes: those whose entry names the configuration.
ConfigKeys(m, configID) == {k \in DOMAIN m : m[k].ConfigID = configID}

InvalidateByConfigID(configID) ==
    /\ entries' = DeleteKeys(entries, ConfigKeys(entries, configID))
    /\ lastSet' = [k \in CacheKeys |->
                      IF lastSet[k].status = "live" /\ lastSet[k].cfg = configID
                        THEN Invalidated("byConfig") ELSE lastSet[k]]
    /\ ret' = NoRet
    /\ UNCHANGED <<now, ttl, sweepAt, outsideCache>>

Clear ==
    /\ entries' = <<>>
    /\ lastSet' = [k \in CacheKeys |->
                      IF lastSet[k].status = "live" THEN Invalidated("byClear") ELSE lastSet[k]]
    /\ ret' = NoRet
    /\ UNCHANGED <<now, ttl, sweepAt, outsideCache>>

\* Stats: counts only, the cache is not changed.
Stats ==
    LET expired == Cardinality({k \in DOMAIN entries : Expired(entries[k], now)})
    IN  [TotalEntries   |-> Cardinality(DOMAIN entries),
         ExpiredEntries |-> expired,
         ValidEntries   |-> Cardinality(DOMAIN entries) - expired]

\* cleanupExpired deletes every entry that is expired at the time of the sweep.
ExpiredKeys(m, t) == {k \in DOMAIN m : Expired(m[k], t)}

cleanupExpiredMutKeepsAll == entries' = entries

cleanupExpired ==
    entries' = DeleteKeys(entries, ExpiredKeys(entries, now))

\* cleanup: one iteration of `for range ticker.C`.  The ticker fires every
\* ttl / 2; the goroutine may run late, and the ticker drops the ticks it
\* missed.
cleanup ==
    /\ now >= sweepAt
    /\ cleanupExpired
    /\ sweepAt' = now + (ttl \div 2)
    /\ ret' = NoRet
    /\ UNCHANGED <<now, ttl, lastSet, outsideCache>>

\* The clock advances.
Tick ==
    /\ now < MaxTime
    /\ now' = now + 1
    /\ ret' = NoRet
    /\ UNCHANGED <<ttl, entries, sweepAt, lastSet, outsideCache>>

\* No goroutine is inside a method of the cache.
Goroutines == {"g1", "g2"}
Idle == [step |-> "idle"]
NoGoroutine == "none"

LockIdle ==
    /\ pc = [g \in Goroutines |-> Idle]
    /\ rlocked = {}
    /\ wlocked = NoGoroutine
    /\ writing = {}
    /\ fatal = FALSE

\* NewHSMCache: both maps of the HSM client's cache are empty.
NewHSMCache == [components |-> <<>>, ethernetInterfaces |-> <<>>]

NoResolution == [op |-> "none"]

\* No node is stored, the HSM holds nothing, nothing was resolved.
ResolveIdle ==
    /\ store = [up |-> TRUE, nodes |-> <<>>]
    /\ hsm = [up |-> TRUE, components |-> {}, interfaces |-> <<>>]
    /\ hsmCache = NewHSMCache
    /\ resolved = NoResolution

NoResponse == [op |-> "none"]

\* The identifiers a boot request is made with: the empty one, a malformed
\* one, and the name of a node that the store or the HSM holds at times.
GenIdentifiers == {"", "bad id", "x1"}

NeverGenerated == [status |-> "none"]

\* No configuration is stored, no boot script was requested.
GenIdle ==
    /\ configs = <<>>
    /\ response = NoResponse
    /\ history = [i \in GenIdentifiers |-> NeverGenerated]

\* A YAML file that reads and parses: its nodes in the order of the file.
YAMLFile(fileNodes) == [err |-> "", Nodes |-> fileNodes]

NoYAMLCall == [op |-> "none"]

\* A provider over a file without nodes, which never reloads.
YAMLIdle ==
    /\ yamlFile = YAMLFile(<<>>)
    /\ yamlNodes = <<>>
    /\ autoReload = FALSE
    /\ lastGood = <<>>
    /\ yamlRet = NoYAMLCall

NoCall == [op |-> "none"]

\* An HSM client without a token that made no call.
ClientIdle ==
    /\ authToken = ""
    /\ called = NoCall
    /\ fetchedAt = <<>>

NoSync == [op |-> "none"]

ProviderIdle ==
    /\ YAMLIdle
    /\ ClientIdle
    /\ synced = NoSync

NoCycle == [op |-> "none"]

\* runServe listens, the worker and the sweeper were started, no cycle ran.
WorkerIdle ==
    /\ ctxDone = FALSE
    /\ serve = "listening"
    /\ shutdown = "waiting"
    /\ syncEnabled = TRUE
    /\ worker = "started"
    /\ tickerC = 0
    /\ sweeper = "ranging"
    /\ cycle = NoCycle

NoMatchCall == [op |-> "none"]

\* Match was not called.
MatchIdle ==
    /\ matchNode = [XName |-> "", NID |-> 0, BootMAC |-> "", Groups |-> {}]
    /\ matchConfigs = <<>>
    /\ matched = NoMatchCall

NoRun == [at |-> "idle"]

\* No synchronization run is in progress.
RaceIdle ==
    /\ run = NoRun
    /\ opLog = <<>>

\* The goroutines that call the HSM client.
Callers == {"g1", "g2"}
NoFlight == [at |-> "idle"]
NoFetch == [op |-> "none"]

\* NewHSMClient: the first, empty map; no call is in progress.
FlightIdle ==
    /\ heap = <<NewHSMCache.components>>
    /\ flight = [g \in Callers |-> NoFlight]
    /\ lastFetch = NoFetch

\* No call of generateCacheKey was made.
NoKey == [op |-> "none"]
KeyIdle == keyed = NoKey

ServiceIdle ==
    /\ WorkerIdle
    /\ MatchIdle
    /\ RaceIdle
    /\ FlightIdle
    /\ KeyIdle

InitCache ==
    /\ now = 0
    /\ \E t \in TTLs : NewScriptCache(t)
    /\ LockIdle
    /\ ResolveIdle
    /\ GenIdle
    /\ ServiceIdle
    /\ ProviderIdle

NextCache ==
    \/ \E k \in CacheKeys : Get(k)
    \/ \E k \in CacheKeys, s \in Scripts, n \in NodeIDs, c \in ConfigIDs : Set(k, s, n, c)
    \/ \E k \in CacheKeys : Invalidate(k)
    \/ \E n \in NodeIDs : InvalidateByNodeID(n)
    \/ \E c \in ConfigIDs : InvalidateByConfigID(c)
    \/ Clear
    \/ cleanup
    \/ Tick

SpecCache == InitCache /\ [][NextCache]_vars

\* The clock advances while the next tick of the sweeper's ticker is still
\* ahead: the sweeper is scheduled when its ticker fires, before the clock
\* moves on.
TimelyTick ==
    /\ now < sweepAt
    /\ Tick

NextCacheTimely ==
    \/ \E k \in CacheKeys : Get(k)
    \/ \E k \in CacheKeys, s \in Scripts, n \in NodeIDs, c \in ConfigIDs : Set(k, s, n, c)
    \/ \E k \in CacheKeys : Invalidate(k)
    \/ cleanup
    \/ TimelyTick

\* The cache with a sweeper that runs on time.
SpecCacheTimely == InitCache /\ [][NextCacheTimely]_vars

----------------------------------------------------------------------------
(* The script cache under concurrent callers: the same methods, one        *)
(* statement at a time, with ScriptCache.mu (a sync.RWMutex).  A write of  *)
(* the map takes two steps, so that two writes can overlap.                *)

\* mu.RLock(): granted when no goroutine holds mu for writing.
CanRLock == wlocked = NoGoroutine
\* mu.Lock(): granted when no goroutine holds mu at all.
CanLock == wlocked = NoGoroutine /\ rlocked = {}

\* A goroutine starts to touch the map while another one is writing it: the
\* Go runtime may detect it and end the process ("concurrent map writes",
\* "concurrent map read and map write"), or may not.
RaceOutcome(g) ==
    IF writing \ {g} # {} THEN fatal' \in BOOLEAN ELSE fatal' = fatal

\* Get, line 43: c.mu.RLock()
GetRLock(g, cacheKey) ==
    /\ ~fatal
    /\ pc[g].step = "idle"
    /\ CanRLock
    /\ rlocked' = rlocked \cup {g}
    /\ pc' = [pc EXCEPT ![g] = [step |-> "lookup", op |-> "Get", key |-> cacheKey]]
    /\ UNCHANGED <<outsideLock, now, cacheVars, wlocked, writing, fatal>>

\* Get, lines 46-58: the lookup and the expiry test
GetLookup(g) ==
    /\ ~fatal
    /\ pc[g].step = "lookup"
    /\ pc[g].op = "Get"
    /\ RaceOutcome(g)
    /\ pc' = [pc EXCEPT ![g].step =
                 IF pc[g].key \in DOMAIN entries /\ Expired(entries[pc[g].key], now)
                   THEN "write" ELSE "unlock"]
    /\ UNCHANGED <<outsideLock, now, cacheVars, rlocked, wlocked, writing>>

\* Get, line 54: delete(c.entries, cacheKey) begins
GetDeleteBegin(g) ==
    /\ ~fatal
    /\ pc[g].step = "write"
    /\ pc[g].op = "Get"
    /\ RaceOutcome(g)
    /\ writing' = writing \cup {g}
    /\ pc' = [pc EXCEPT ![g].step = "writing"]
    /\ UNCHANGED <<outsideLock, now, cacheVars, rlocked, wlocked>>

\* Get, line 54: delete(c.entries, cacheKey) ends
GetDeleteEnd(g) ==
    /\ ~fatal
    /\ pc[g].step = "writing"
    /\ pc[g].op = "Get"
    /\ entries' = DeleteKeys(entries, {pc[g].key})
    /\ writing' = writing \ {g}
    /\ pc' = [pc EXCEPT ![g].step = "unlock"]
    /\ UNCHANGED <<outsideLock, now, ttl, sweepAt, ret, lastSet, rlocked, wlocked, fatal>>

\* Get, line 44: the deferred c.mu.RUnlock()
GetRUnlock(g) ==
    /\ ~fatal
    /\ pc[g].step = "unlock"
    /\ pc[g].op = "Get"
    /\ rlocked' = rlocked \ {g}
    /\ pc' = [pc EXCEPT ![g] = Idle]
    /\ UNCHANGED <<outsideLock, now, cacheVars, wlocked, writing, fatal>>

\* The methods that take the exclusive lock: Set, Invalidate,
\* InvalidateByNodeID and cleanupExpired.  Lines 63, 80, 88, 158: c.mu.Lock()
WriterLock(g, call) ==
    /\ ~fatal
    /\ pc[g].step = "idle"
    /\ CanLock
    /\ wlocked' = g
    /\ pc' = [pc EXCEPT ![g] = [step |-> "write", op |-> call.op, call |-> call]]
    /\ UNCHANGED <<outsideLock, now, cacheVars, rlocked, writing, fatal>>

\* The write of the map begins (lines 75, 83, 93, 164).
WriterWriteBegin(g) ==
    /\ ~fatal
    /\ pc[g].step = "write"
    /\ pc[g].op # "Get"
    /\ RaceOutcome(g)
    /\ writing' = writing \cup {g}
    /\ pc' = [pc EXCEPT ![g].step = "writing"]
    /\ UNCHANGED <<outsideLock, now, cacheVars, rlocked, wlocked>>

\* The map after the write of the method.
WrittenMap(call) ==
    CASE call.op = "Set" ->
            SetOf(entries, call.key, call.script, call.node, call.cfg, now)
      [] call.op = "Invalidate" -> DeleteKeys(entries, {call.key})
      [] call.op = "InvalidateByNodeID" -> DeleteKeys(entries, NodeKeys(entries, call.node))
      [] call.op = "cleanupExpired" -> DeleteKeys(entries, ExpiredKeys(entries, now))

\* The write of the map ends.
WriterWriteEnd(g) ==
    /\ ~fatal
    /\ pc[g].step = "writing"
    /\ pc[g].op # "Get"
    /\ entries' = WrittenMap(pc[g].call)
    /\ writing' = writing \ {g}
    /\ pc' = [pc EXCEPT ![g].step = "unlock"]
    /\ UNCHANGED <<outsideLock, now, ttl, sweepAt, ret, lastSet, rlocked, wlocked, fatal>>

\* Lines 64, 81, 89, 159: the deferred c.mu.Unlock()
WriterUnlock(g) ==
    /\ ~fatal
    /\ pc[g].step = "unlock"
    /\ pc[g].op # "Get"
    /\ wlocked' = NoGoroutine
    /\ pc' = [pc EXCEPT ![g] = Idle]
    /\ UNCHANGED <<outsideLock, now, cacheVars, rlocked, writing, fatal>>

\* The calls of the writer methods the goroutines make.
LockKeys == {"n1:default"}
WriterCalls ==
    {[op |-> "Set", key |-> k, script |-> "s1", node |-> "n1", cfg |-> "c1"] : k \in LockKeys}
    \cup {[op |-> "Invalidate", key |-> k] : k \in LockKeys}
    \cup {[op |-> "InvalidateByNodeID", node |-> "n1"], [op |-> "cleanupExpired"]}

TickLock ==
    /\ ~fatal
    /\ now < MaxTime
    /\ now' = now + 1
    /\ UNCHANGED <<outsideLock, cacheVars, lockVars>>

NextLock ==
    \/ \E g \in Goroutines, k \in LockKeys : GetRLock(g, k)
    \/ \E g \in Goroutines : GetLookup(g)
    \/ \E g \in Goroutines : GetDeleteBegin(g)
    \/ \E g \in Goroutines : GetDeleteEnd(g)
    \/ \E g \in Goroutines : GetRUnlock(g)
    \/ \E g \in Goroutines, call \in WriterCalls : WriterLock(g, call)
    \/ \E g \in Goroutines : WriterWriteBegin(g)
    \/ \E g \in Goroutines : WriterWriteEnd(g)
    \/ \E g \in Goroutines : WriterUnlock(g)
    \/ TickLock

SpecLock == InitCache /\ [][NextLock]_vars

\* C5: every mutation of the script cache's entry map happens while the
\* exclusive lock is held by the goroutine that mutates; a goroutine that
\* holds only the shared lock never modifies the map, so two concurrent Get
\* calls never write the map at the same time.
C5_WritesHoldExclusiveLock ==
    /\ \A g \in writing : wlocked = g
    /\ Cardinality(writing) <= 1
    /\ ~fatal

----------------------------------------------------------------------------
(* Claims about the script cache, checked under SpecCache. *)

\* The Get that just returned was for a key whose last Set is still in force:
\* no Invalidate, InvalidateByNodeID, InvalidateByConfigID or Clear removed
\* it since.  The sweeper and Get's own lazy removal do not count.
GotLive == ret.op = "Get" /\ lastSet[ret.key].status = "live"

\* C2: for every TTL t, a script stored by Set at time T is returned by Get
\* at every time before T + t and is reported absent by Get at every time
\* after T + t, whether or not the sweeper has run in between.
C2_TTLBeforeAndAfter ==
    GotLive =>
        LET s == lastSet[ret.key]
        IN  /\ now < s.at + ttl => ret.found /\ ret.script = s.script
            /\ now > s.at + ttl => ~ret.found

\* C2 witness: a Get after T + t of an entry that the sweeper had already
\* removed or that Get removed itself.
C2_Witness ==
    /\ GotLive
    /\ now > lastSet[ret.key].at + ttl
    /\ ~ret.found
    /\ ret.key \notin DOMAIN entries

\* C3 as stated: Get returns an entry only when the current time is strictly
\* before the entry's expiry time.
C3_ServedOnlyStrictlyBeforeExpiry ==
    (ret.op = "Get" /\ ret.found) =>
        /\ ret.key \in DOMAIN entries
        /\ now < entries[ret.key].ExpiresAt

\* C3 as amended: Get returns an entry only when the current time is not
\* after the entry's expiry time, and a Get at a time exactly equal to the
\* expiry time still returns the entry.
C3_ServedUntilExpiryInclusive ==
    /\ (ret.op = "Get" /\ ret.found) =>
            /\ ret.key \in DOMAIN entries
            /\ now <= entries[ret.key].ExpiresAt
            /\ ret.script = entries[ret.key].Script
    /\ (GotLive /\ now = lastSet[ret.key].at + ttl) => ret.found

\* C3 witness: a Get at exactly the expiry time, which returns the entry.
C3_Witness ==
    /\ ret.op = "Get"
    /\ ret.found
    /\ now = entries[ret.key].ExpiresAt

\* C4: after Set stored an entry for a node, InvalidateByNodeID of that node
\* leaves no retrievable entry for it: Get of the key reports it absent,
\* although the TTL has not elapsed, until the key is Set again.
C4_InvalidateByNodeRemoves ==
    (ret.op = "Get" /\ lastSet[ret.key].status = "byNode") => ~ret.found

\* C4 witness: such a Get at a time at which no entry can have expired yet
\* (every entry lives at least ttl, and now < ttl).
C4_Witness ==
    /\ ret.op = "Get"
    /\ lastSet[ret.key].status = "byNode"
    /\ now < ttl

\* C38: selective invalidation is exact.  Invalidate(key),
\* InvalidateByNodeID(n) and InvalidateByConfigID(c) remove the entries with
\* that key, that owning node, that owning configuration: such an entry is
\* gone until the key is Set again.  Every other entry is kept: an entry
\* that was Set, whose TTL has not elapsed and that no invalidation named is
\* in the cache with the script, the owner and the expiry time of its Set.
C38_SelectiveInvalidationIsExact ==
    \A k \in CacheKeys :
        /\ lastSet[k].status \in {"byKey", "byNode", "byConfig"} =>
              k \notin DOMAIN entries
        /\ (lastSet[k].status = "live" /\ now <= lastSet[k].at + ttl) =>
              /\ k \in DOMAIN entries
              /\ entries[k].Script = lastSet[k].script
              /\ entries[k].ExpiresAt = lastSet[k].at + ttl
              /\ entries[k].NodeID = lastSet[k].node
              /\ entries[k].ConfigID = lastSet[k].cfg

\* Two entries of the same node under different configurations, of which
\* InvalidateByConfigID removed one and left the other.
C38_Witness ==
    /\ lastSet["n1:default"].status = "byConfig"
    /\ lastSet["n2:c1"].status = "live"
    /\ lastSet["n2:c1"].node = "n1"
    /\ now <= lastSet["n2:c1"].at + ttl
    /\ DOMAIN entries = {"n2:c1"}
    /\ ret = NoRet

----------------------------------------------------------------------------
(* The node resolver of the HSM integration service:                       *)
(* IntegrationService.ResolveNodeByIdentifier, with the HSM client         *)
(* (GetComponent, GetEthernetInterfaces, GetComponentByMAC) and the HSM    *)
(* client's response cache.                                                *)

\* The largest numeric id (NodeSpec.NID, HSMComponent.NID) of the model.
MaxNID == 2

\* Response-cache entries of the HSM client live this long
\* (HSMConfig.CacheExpiry).
HSMCacheExpiry == 1

XNames == {"x1", "x2"}
MACs == {"m1", "m2"}

\* fmt.Sprintf("%d", n): the decimal numeral of n.
Digit == <<"0", "1", "2", "3", "4", "5", "6", "7", "8", "9">>
RECURSIVE Itoa(_)
Itoa(n) ==
    IF n < 0 THEN "-" \o Itoa(0 - n)
    ELSE IF n < 10 THEN Digit[n + 1]
    ELSE Itoa(n \div 10) \o Digit[(n % 10) + 1]

\* strings.ToLower over the strings of the model: the MAC addresses written
\* with capital letters have a lower-case form of their own, every other
\* string of the model is in lower case already.
ToLower(s) ==
    CASE s = "M1" -> "m1"
      [] s = "M2" -> "m2"
      [] OTHER -> s

\* The identifiers a boot request can carry: names, numerals, MAC addresses,
\* the MAC address m1 as a device that prints capital letters sends it, and
\* a name nobody knows.
Identifiers ==
    XNames \cup {Itoa(n) : n \in 0..MaxNID} \cup MACs \cup {"M1"} \cup {"x9"}

\* node.NodeSpec, the fields the resolver reads and writes.
NodeSpec(xname, nid, mac) == [XName |-> xname, NID |-> nid, BootMAC |-> mac]

\* The nodes the boot service can hold.  Node x2 may carry the numeric id of
\* x1, so that one identifier can match two stored nodes, or no numeric id:
\* NodeSpec.NID is an integer field whose zero value the handlers read as
\* "absent" (converter.go: if n.Spec.NID != 0).
StoreNodes ==
    {NodeSpec("x1", 1, "m1")} \cup {NodeSpec("x2", n, "m2") : n \in 0..MaxNID}

\* HSMComponent and HSMEthernetInterface, the fields the resolver reads.
HSMComponent(id, nid) == [ID |-> id, NID |-> nid]
HSMEthernetInterface(mac, id) == [MACAddress |-> mac, ComponentID |-> id]

\* The inventories an HSM server holds: nothing; x1 and x2 with their
\* interfaces; x1 and x2 where x2 has no interface.
HSMInventories ==
    { [components |-> {}, interfaces |-> <<>>],
      [components |-> {HSMComponent("x1", 1), HSMComponent("x2", 2)},
       interfaces |-> <<HSMEthernetInterface("m1", "x1"),
                        HSMEthernetInterface("m2", "x2")>>],
      [components |-> {HSMComponent("x1", 1), HSMComponent("x2", 2)},
       interfaces |-> <<HSMEthernetInterface("m1", "x1")>>] }

HSMCacheGetMutNoExpiry(cacheMap, key, t) ==
    IF key \notin DOMAIN cacheMap
      THEN [found |-> FALSE]
      ELSE [found |-> TRUE, Data |-> cacheMap[key].Data]

HSMCacheGetMutMiss(cacheMap, key, t) == [found |-> FALSE]

\* HSMCache.Get: the entry of the key, unless it is missing or expired.
HSMCacheGet(cacheMap, key, t) ==
    IF key \notin DOMAIN cacheMap \/ t > cacheMap[key].ExpiresAt
      THEN [found |-> FALSE]
      ELSE [found |-> TRUE, Data |-> cacheMap[key].Data]

\* HSMCache.Set
HSMCacheSet(cacheMap, key, data, t) ==
    (key :> [Data |-> data, ExpiresAt |-> t + HSMCacheExpiry]) @@ cacheMap

\* The first of the indexes at which a loop's test holds, 0 when it holds
\* nowhere (the loops of GetComponentByMAC and convertHSMComponentToNode
\* break at the first match).
FirstInterface(matching) ==
    IF matching = {} THEN 0
    ELSE CHOOSE i \in matching : \A j \in matching : i <= j

\* The GET request the client builds for a path: the Authorization header
\* is set when a token is configured ("" stands for no header).
Request(path) ==
    [path |-> path,
     Authorization |-> IF authToken # "" THEN "Bearer " \o authToken ELSE ""]

\* The request of HSMClient.Health, which sets no header.
HealthRequest == [path |-> "/hsm/v2/service/ready", Authorization |-> ""]

\* HSMClient.GetComponents: the cached list, else GET /hsm/v2/State/Components,
\* whose answer is cached.  Besides the result: the requests sent and the
\* cache keys whose data was fetched.
GetComponents(c) ==
    LET hit == HSMCacheGet(c.components, "all_components", now)
        req == Request("/hsm/v2/State/Components")
    IN  IF hit.found
          THEN [err |-> FALSE, components |-> hit.Data, cache |-> c,
                requests |-> <<>>, fetched |-> {}]
        ELSE IF ~hsm.up
          THEN [err |-> TRUE, cache |-> c, requests |-> <<req>>, fetched |-> {}]
        ELSE [err |-> FALSE, components |-> hsm.components,
              cache |-> [c EXCEPT !.components =
                            HSMCacheSet(@, "all_components", hsm.components, now)],
              requests |-> <<req>>, fetched |-> {"all_components"}]

\* HSMClient.GetComponent: the cached component, else GET
\* /hsm/v2/State/Components/<componentID>, whose answer is cached.
GetComponent(c, componentID) ==
    LET cacheKey == "component_" \o componentID
        hit == HSMCacheGet(c.components, cacheKey, now)
        req == Request("/hsm/v2/State/Components/" \o componentID)
    IN  IF hit.found
          THEN [err |-> FALSE, comp |-> hit.Data, cache |-> c,
                requests |-> <<>>, fetched |-> {}]
        ELSE IF ~hsm.up
          THEN [err |-> TRUE, cache |-> c, requests |-> <<req>>, fetched |-> {}]
        ELSE IF \A x \in hsm.components : x.ID # componentID
          THEN [err |-> TRUE, cache |-> c, requests |-> <<req>>, fetched |-> {}]
        ELSE LET component == CHOOSE x \in hsm.components : x.ID = componentID
             IN  [err |-> FALSE, comp |-> component,
                  cache |-> [c EXCEPT !.components =
                                HSMCacheSet(@, cacheKey, component, now)],
                  requests |-> <<req>>, fetched |-> {cacheKey}]

\* HSMClient.GetEthernetInterfaces: the cached list, else GET
\* /hsm/v2/Inventory/EthernetInterfaces, whose answer is cached.
GetEthernetInterfaces(c) ==
    LET hit == HSMCacheGet(c.ethernetInterfaces, "all_ethernet", now)
        req == Request("/hsm/v2/Inventory/EthernetInterfaces")
    IN  IF hit.found
          THEN [err |-> FALSE, interfaces |-> hit.Data, cache |-> c,
                requests |-> <<>>, fetched |-> {}]
        ELSE IF ~hsm.up
          THEN [err |-> TRUE, cache |-> c, requests |-> <<req>>, fetched |-> {}]
        ELSE [err |-> FALSE, interfaces |-> hsm.interfaces,
              cache |-> [c EXCEPT !.ethernetInterfaces =
                            HSMCacheSet(@, "all_ethernet", hsm.interfaces, now)],
              requests |-> <<req>>, fetched |-> {"all_ethernet"}]

\* HSMClient.GetComponentByMAC
GetComponentByMAC(c, macAddress) ==
    LET e == GetEthernetInterfaces(c)
    IN  IF e.err THEN [err |-> TRUE, cache |-> e.cache,
                       requests |-> e.requests, fetched |-> e.fetched]
        ELSE LET i == FirstInterface({k \in 1..Len(e.interfaces) :
                                  e.interfaces[k].MACAddress = macAddress})
                 componentID == IF i = 0 THEN "" ELSE e.interfaces[i].ComponentID
             IN  IF componentID = ""
                   THEN [err |-> TRUE, cache |-> e.cache,
                         requests |-> e.requests, fetched |-> e.fetched]
                 ELSE LET g == GetComponent(e.cache, componentID)
                      IN  [g EXCEPT !.requests = e.requests \o @,
                                    !.fetched = e.fetched \cup @]

\* IntegrationService.convertHSMComponentToNode
convertHSMComponentToNode(c, comp) ==
    LET e == GetEthernetInterfaces(c)
    IN  IF e.err
          THEN [err |-> "failed to get ethernet interfaces", cache |-> e.cache]
        ELSE LET i == FirstInterface({k \in 1..Len(e.interfaces) :
                                  e.interfaces[k].ComponentID = comp.ID})
                 bootMAC == IF i = 0 THEN "" ELSE e.interfaces[i].MACAddress
             IN  [err |-> "", node |-> NodeSpec(comp.ID, comp.NID, bootMAC),
                  cache |-> e.cache]

NodeMatchesMutNever(n, identifier) == FALSE

\* The test of the loop over the stored nodes: XName, then NID, then BootMAC.
NodeMatches(n, identifier) ==
    \/ n.XName = identifier
    \/ Itoa(n.NID) = identifier
    \/ n.BootMAC = identifier

\* The index of the first stored node that matches, 0 when none does.
StoreMatch(nodes, identifier) ==
    IF \E i \in 1..Len(nodes) : NodeMatches(nodes[i], identifier)
      THEN CHOOSE i \in 1..Len(nodes) :
              /\ NodeMatches(nodes[i], identifier)
              /\ \A j \in 1..(i - 1) : ~NodeMatches(nodes[j], identifier)
      ELSE 0

\* The nil *node.Node returned together with an error.
NilNode == [nil |-> TRUE]

\* ResolveNodeByIdentifier as a function of the store, the HSM and the HSM
\* client's cache: the error or the node it returns, the calls it made to
\* the HSM client, and the cache it leaves.
ResolveOf(identifier) ==
    IF ~store.up
      THEN [err |-> "failed to get nodes from boot service",
            calls |-> <<>>, cache |-> hsmCache]
    ELSE LET i == StoreMatch(store.nodes, identifier) IN
    IF i # 0
      THEN [err |-> "", node |-> store.nodes[i], calls |-> <<>>, cache |-> hsmCache]
    ELSE LET byID == GetComponent(hsmCache, identifier) IN
    IF ~byID.err
      THEN LET cv == convertHSMComponentToNode(byID.cache, byID.comp)
           IN  cv @@ [calls |-> <<"GetComponent">>]
    ELSE LET byMAC == GetComponentByMAC(byID.cache, identifier) IN
    IF ~byMAC.err
      THEN LET cv == convertHSMComponentToNode(byMAC.cache, byMAC.comp)
           IN  cv @@ [calls |-> <<"GetComponent", "GetComponentByMAC">>]
    ELSE [err |-> "not found in boot service or HSM",
          calls |-> <<"GetComponent", "GetComponentByMAC">>,
          cache |-> byMAC.cache]

ResolveNodeByIdentifierMutPersists(identifier) ==
    \E r \in {ResolveOf(identifier)} :
        /\ hsmCache' = r.cache
        /\ resolved' = [op |-> "Resolve", identifier |-> identifier,
                        err |-> r.err, calls |-> r.calls,
                        node |-> IF r.err = "" THEN r.node ELSE NilNode]
        /\ response' = NoResponse
        /\ store' = IF r.err = "" /\ r.calls # <<>>
                      THEN [store EXCEPT !.nodes = Append(@, r.node)]
                      ELSE store
        /\ UNCHANGED <<now, hsm, outsideResolve>>

ResolveNodeByIdentifier(identifier) ==
    \E r \in {ResolveOf(identifier)} :
        /\ hsmCache' = r.cache
        /\ resolved' = [op |-> "Resolve", identifier |-> identifier,
                        err |-> r.err, calls |-> r.calls,
                        node |-> IF r.err = "" THEN r.node ELSE NilNode]
        /\ response' = NoResponse
        /\ UNCHANGED <<now, store, hsm, outsideResolve>>

\* The boot service gains a node (a node resource is created, as syncNode
\* does for a component that is new).
StoreCreate(n) ==
    /\ \A i \in 1..Len(store.nodes) : store.nodes[i].XName # n.XName
    /\ store' = [store EXCEPT !.nodes = Append(@, n)]
    /\ resolved' = NoResolution
    /\ response' = NoResponse
    /\ UNCHANGED <<now, hsm, hsmCache, outsideResolve>>

\* The boot service loses a node.
StoreDelete(i) ==
    /\ i \in 1..Len(store.nodes)
    /\ store' = [store EXCEPT !.nodes =
                    SubSeq(@, 1, i - 1) \o SubSeq(@, i + 1, Len(@))]
    /\ resolved' = NoResolution
    /\ response' = NoResponse
    /\ UNCHANGED <<now, hsm, hsmCache, outsideResolve>>

\* bootClient.GetNodes starts or stops to fail.
StoreOutage ==
    /\ store' = [store EXCEPT !.up = ~@]
    /\ resolved' = NoResolution
    /\ response' = NoResponse
    /\ UNCHANGED <<now, hsm, hsmCache, outsideResolve>>

\* The HSM server starts or stops to answer.
HSMOutage ==
    /\ hsm' = [hsm EXCEPT !.up = ~@]
    /\ resolved' = NoResolution
    /\ response' = NoResponse
    /\ UNCHANGED <<now, store, hsmCache, outsideResolve>>

\* The inventory of the HSM server changes.
HSMDiscover(inv) ==
    /\ hsm.components # inv.components \/ hsm.interfaces # inv.interfaces
    /\ hsm' = [up |-> hsm.up, components |-> inv.components,
               interfaces |-> inv.interfaces]
    /\ resolved' = NoResolution
    /\ response' = NoResponse
    /\ UNCHANGED <<now, store, hsmCache, outsideResolve>>

\* The clock advances, up to ResolveMaxTime.
ResolveMaxTime == 2

TickResolve ==
    /\ now < ResolveMaxTime
    /\ now' = now + 1
    /\ resolved' = NoResolution
    /\ response' = NoResponse
    /\ UNCHANGED <<store, hsm, hsmCache, outsideResolve>>

InitResolve ==
    /\ now = 0
    /\ NewScriptCache(2)
    /\ LockIdle
    /\ ResolveIdle
    /\ GenIdle
    /\ ServiceIdle
    /\ ProviderIdle

NextResolve ==
    \/ \E identifier \in Identifiers : ResolveNodeByIdentifier(identifier)
    \/ \E n \in StoreNodes : StoreCreate(n)
    \/ \E i \in 1..Len(store.nodes) : StoreDelete(i)
    \/ StoreOutage
    \/ HSMOutage
    \/ \E inv \in HSMInventories : HSMDiscover(inv)
    \/ TickResolve

SpecResolve == InitResolve /\ [][NextResolve]_vars

----------------------------------------------------------------------------
(* Claims about the resolver, checked under SpecResolve. *)

\* The stored nodes the identifier of the last resolution names, by
\* hardware-location name, numeric id or boot MAC.
StoreHits ==
    {i \in 1..Len(store.nodes) :
        \/ store.nodes[i].XName = resolved.identifier
        \/ Itoa(store.nodes[i].NID) = resolved.identifier
        \/ store.nodes[i].BootMAC = resolved.identifier}

\* C8: resolution asks the store first and the first store hit wins: for an
\* identifier that matches a stored node the resolver returns the first such
\* node of the store and makes no call to the node provider; it calls the
\* provider only when the identifier missed in the store.
C8_StoreFirst ==
    (resolved.op = "Resolve" /\ store.up) =>
        /\ StoreHits # {} =>
              /\ resolved.err = ""
              /\ resolved.calls = <<>>
              /\ \E i \in StoreHits :
                    /\ resolved.node = store.nodes[i]
                    /\ \A j \in StoreHits : i <= j
        /\ resolved.calls # <<>> => StoreHits = {}

\* A resolution of an identifier that names a stored node and that the HSM,
\* which answers, knows as well, with other data than the store.
C8_Witness ==
    /\ resolved.op = "Resolve"
    /\ store.up
    /\ StoreHits # {}
    /\ hsm.up
    /\ \E x \in hsm.components :
          /\ x.ID = resolved.identifier
          /\ x.NID # resolved.node.NID
    /\ resolved.calls = <<>>

\* C9: a failure to read the store is absorbed by the resolver: the store
\* error is never returned to the caller, and the provider is still
\* consulted, so that an identifier the provider knows resolves to a node.
C9_StoreFailureAbsorbed ==
    (resolved.op = "Resolve" /\ ~store.up) =>
        /\ resolved.err # "failed to get nodes from boot service"
        /\ (hsm.up /\ \E x \in hsm.components : x.ID = resolved.identifier) =>
              /\ resolved.err = ""
              /\ resolved.node.XName = resolved.identifier

\* C10: on a full store miss the provider is asked with the same identifier
\* in the same namespace order (name, numeric id, boot MAC): a node the
\* provider knows under numeric id n, absent from the store, is resolved
\* from the identifier n.
C10_ProviderResolvesNumericID ==
    (/\ resolved.op = "Resolve"
     /\ store.up
     /\ StoreHits = {}
     /\ hsm.up
     /\ \E x \in hsm.components : Itoa(x.NID) = resolved.identifier) =>
        /\ resolved.err = ""
        /\ Itoa(resolved.node.NID) = resolved.identifier

\* C33: an optional identifier that is absent never matches: a resolution of
\* a numeric identifier returns only a node whose numeric id is present (not
\* the zero value) and equal to the identifier.  The loop over the stored
\* nodes compares the formatted NID with the identifier without testing
\* that the node has one, so "0" resolves to a stored node without numeric
\* id.
NumericIdentifiers == {Itoa(n) : n \in 0..MaxNID}

C33_AbsentNumericIDNeverMatches ==
    (/\ resolved.op = "Resolve"
     /\ resolved.err = ""
     /\ resolved.identifier \in NumericIdentifiers) =>
        /\ resolved.node.NID # 0
        /\ Itoa(resolved.node.NID) = resolved.identifier

\* C34: a provider hit yields a transient node: whenever the store misses and
\* the provider returns the component for the identifier (by name or by boot
\* MAC), the resolution returns a node built from it, also when the
\* provider's interface list cannot be fetched.  convertHSMComponentToNode
\* returns the error of GetEthernetInterfaces instead of a node without boot
\* MAC.
ProviderHit(identifier) ==
    \/ ~GetComponent(hsmCache, identifier).err
    \/ ~GetComponentByMAC(GetComponent(hsmCache, identifier).cache,
                          identifier).err

C34_ProviderHitYieldsNode ==
    [][\A identifier \in Identifiers :
          (/\ ResolveNodeByIdentifier(identifier)
           /\ store.up
           /\ StoreMatch(store.nodes, identifier) = 0
           /\ ProviderHit(identifier)) =>
              /\ resolved'.err = ""
              /\ resolved'.node # NilNode]_vars

\* C39: resolution has no side effect beyond provider calls and the
\* provider's own cache: the step in which a resolution returns, found or
\* not, changes neither the nodes of the store (no create, no update: a node
\* obtained from the provider is not persisted) nor the script cache, nor
\* the provider's inventory.
C39_ResolutionWritesNothing ==
    [][resolved'.op = "Resolve" =>
          /\ store' = store
          /\ hsm' = hsm
          /\ entries' = entries
          /\ lastSet' = lastSet]_vars

\* A resolution that the provider answered, which filled the client's cache,
\* with a store that holds a node but not the one returned.
C39_Witness ==
    /\ resolved.op = "Resolve"
    /\ resolved.err = ""
    /\ resolved.calls # <<>>
    /\ hsmCache # NewHSMCache
    /\ store.up
    /\ store.nodes # <<>>
    /\ \A i \in 1..Len(store.nodes) : store.nodes[i].XName # resolved.node.XName

\* C11 (store and remote inventory): an identifier that differs from a
\* node's boot MAC only in the case of its letters resolves to that node.
\* The loop over the stored nodes and the loop of GetComponentByMAC compare
\* with ==, so the request for "M1" finds neither the stored node nor the
\* HSM interface whose address is "m1".
C11_MACMatchIgnoresCase ==
    (/\ resolved.op = "Resolve"
     /\ store.up
     /\ \E i \in 1..Len(store.nodes) :
            ToLower(store.nodes[i].BootMAC) = ToLower(resolved.identifier))
    => (/\ resolved.err = ""
        /\ ToLower(resolved.node.BootMAC) = ToLower(resolved.identifier))

----------------------------------------------------------------------------
(* The boot-script controller: GenerateBootScript looks the script up in   *)
(* the script cache, and on a miss resolves the node, matches a boot       *)
(* configuration, renders the script and caches it.  Its steps follow the  *)
(* package documentation and the design document, and use the cache and    *)
(* the resolver above.                                                     *)

generateCacheKeyMutNoDefault(identifier, configName) ==
    identifier \o ":" \o configName

\* BootScriptController.generateCacheKey
generateCacheKey(identifier, configName) ==
    identifier \o ":" \o (IF configName = "" THEN "default" ELSE configName)

\* The points of the matching criteria.
MACScore == 100
NIDScore == 75
XNameScore == 50
GroupScore == 25
DefaultScore == 1

\* A boot configuration.  A URL is the sequence of its path segments.
BootConfiguration(name, xnames, macs, nids, groups, kernel, priority) ==
    [Name |-> name, XNames |-> xnames, MACs |-> macs, NIDs |-> nids,
     Groups |-> groups, Kernel |-> kernel,
     Initrd |-> <<"http:", "", "s", "initrd.img">>,
     Params |-> "console=tty0", Priority |-> priority]

\* The lists of configurations the store can hold: none; one that selects
\* the boot MAC of x1; the same with another kernel.
ConfigLists ==
    { <<>>,
      <<BootConfiguration("c1", {}, {"m1"}, {}, {}, <<"http:", "", "s", "vmlinuz">>, 0)>>,
      <<BootConfiguration("c1", {}, {"m1"}, {}, {}, <<"http:", "", "s", "vmlinuz-2">>, 0)>> }

\* The groups of a node; a node synthesized from the HSM has none.
NodeGroups(node) == IF "Groups" \in DOMAIN node THEN node.Groups ELSE {}

\* A selector pattern matches a name exactly, or is the wildcard.
PatternMatches(pattern, xname) == pattern = xname \/ pattern = "*"

HasNoSelectors(cfg) ==
    cfg.XNames = {} /\ cfg.MACs = {} /\ cfg.NIDs = {} /\ cfg.Groups = {}

\* The points a configuration earns for a node, without its priority.
CriteriaScore(node, cfg) ==
    (IF node.BootMAC # "" /\ node.BootMAC \in cfg.MACs THEN MACScore ELSE 0)
    + (IF node.NID \in cfg.NIDs THEN NIDScore ELSE 0)
    + (IF \E pt \in cfg.XNames : PatternMatches(pt, node.XName) THEN XNameScore ELSE 0)
    + GroupScore * Cardinality(NodeGroups(node) \cap cfg.Groups)
    + (IF HasNoSelectors(cfg) THEN DefaultScore ELSE 0)

\* The score of a configuration: its points plus its explicit priority
\* ("MAC match (100) + Priority(10) = 110 points").
ScoreMutNoPriority(node, cfg) == CriteriaScore(node, cfg)

Score(node, cfg) == CriteriaScore(node, cfg) + cfg.Priority

\* Match: the index of the configuration with the highest score among those
\* that match at all; among configurations with the same score "the explicit
\* Priority field is used as a tiebreaker", and among those the earliest one
\* is kept; 0 when none matches.
Match(node, cfgs) ==
    LET matching == {i \in 1..Len(cfgs) : CriteriaScore(node, cfgs[i]) > 0}
    IN  IF matching = {} THEN 0
        ELSE CHOOSE i \in matching :
                \A j \in matching :
                    \/ Score(node, cfgs[i]) > Score(node, cfgs[j])
                    \/ /\ Score(node, cfgs[i]) = Score(node, cfgs[j])
                       /\ \/ cfgs[i].Priority > cfgs[j].Priority
                          \/ cfgs[i].Priority = cfgs[j].Priority /\ i <= j

\* The file name of a URL: its last path segment.
Filename(url) == IF url = <<>> THEN "" ELSE url[Len(url)]

\* A boot script is a sequence of lines; a line is a directive and its
\* argument.
Line(directive, arg) == [directive |-> directive, arg |-> arg]
Header == Line("#!ipxe", "")

\* The full template.
DefaultIPXETemplate(node, cfg) ==
    << Header,
       Line("echo", node.XName),
       Line("dhcp", ""),
       Line("kernel", Filename(cfg.Kernel)),
       Line("initrd", Filename(cfg.Initrd)),
       Line("imgargs", cfg.Params),
       Line("boot", "") >>

\* The minimal template: bootstrap and retry, no kernel.
MinimalIPXETemplate(node) ==
    << Header, Line("echo", node.XName), Line("dhcp", ""), Line("retry", "") >>

\* The error template: a comment block and the retry.
ErrorIPXETemplateMutNoHeader(identifier, message) ==
    << Line("#", message), Line("#", identifier), Line("retry", "") >>

ErrorIPXETemplate(identifier, message) ==
    << Header, Line("#", message), Line("#", identifier), Line("retry", "") >>

\* The identifiers that are rejected before the resolution begins.
MalformedIdentifiers == {"bad id"}
IsValidIdentifier(identifier) ==
    identifier # "" /\ identifier \notin MalformedIdentifiers

\* How a request fares: it runs to its end, its context is cancelled while
\* the node is resolved or while the configurations are read, or the
\* template fails to bind.
Fates == {"run", "cancelResolve", "cancelMatch", "renderFailure"}

\* The steps of a request after the node was resolved: matching,
\* rendering, caching; m is the script cache's map the lookup left, c the
\* HSM client's cache the resolution left.
GenerateResolved(identifier, fate, cacheKey, m, node, c) ==
    IF fate = "cancelMatch"
      THEN [err |-> "", script |-> ErrorIPXETemplate(identifier, "Boot script generation failed"),
            outcome |-> "cancelled", trace |-> <<"lookup", "resolve", "match">>,
            node |-> node.XName, cfg |-> "", entries |-> m, cache |-> c]
    ELSE LET i == Match(node, configs) IN
    IF i = 0
      THEN [err |-> "", script |-> MinimalIPXETemplate(node),
            outcome |-> "minimal", trace |-> <<"lookup", "resolve", "match", "render">>,
            node |-> node.XName, cfg |-> "", entries |-> m, cache |-> c]
    ELSE IF fate = "renderFailure"
      THEN [err |-> "", script |-> ErrorIPXETemplate(identifier, "Boot script generation failed"),
            outcome |-> "failed", trace |-> <<"lookup", "resolve", "match", "render">>,
            node |-> node.XName, cfg |-> configs[i].Name, entries |-> m, cache |-> c]
    ELSE [err |-> "", script |-> DefaultIPXETemplate(node, configs[i]),
          outcome |-> "ok",
          trace |-> <<"lookup", "resolve", "match", "render", "cache">>,
          node |-> node.XName, cfg |-> configs[i].Name,
          entries |-> SetOf(m, cacheKey, DefaultIPXETemplate(node, configs[i]),
                            node.XName, configs[i].Name, now),
          cache |-> c]

\* The one element of a singleton.
The(S) == CHOOSE x \in S : TRUE

\* What a request does after the cache missed: resolution, matching,
\* rendering, caching, in this order.
GenerateMiss(identifier, fate, cacheKey, m) ==
    IF fate = "cancelResolve"
      THEN [err |-> "", script |-> ErrorIPXETemplate(identifier, "Node resolution failed"),
            outcome |-> "cancelled", trace |-> <<"lookup", "resolve">>,
            node |-> "", cfg |-> "", entries |-> m, cache |-> hsmCache]
    ELSE The({ IF r.err # ""
                 THEN [err |-> "",
                       script |-> ErrorIPXETemplate(identifier, "Node resolution failed"),
                       outcome |-> "failed", trace |-> <<"lookup", "resolve">>,
                       node |-> "", cfg |-> "", entries |-> m, cache |-> r.cache]
                 ELSE GenerateResolved(identifier, fate, cacheKey, m, r.node, r.cache)
               : r \in {ResolveOf(identifier)} })

\* GenerateBootScript as a function of the identifier and the state.
GenerateOf(identifier, fate) ==
    IF ~IsValidIdentifier(identifier)
      THEN [err |-> "Invalid", script |-> <<>>, outcome |-> "invalid", trace |-> <<>>,
            node |-> "", cfg |-> "", entries |-> entries, cache |-> hsmCache]
    ELSE The({ IF hit.found
                 THEN [err |-> "", script |-> hit.script, outcome |-> "cached",
                       trace |-> <<"lookup">>, node |-> "", cfg |-> "",
                       entries |-> hit.entries, cache |-> hsmCache]
                 ELSE GenerateMiss(identifier, fate,
                                   generateCacheKey(identifier, ""), hit.entries)
               : hit \in {GetOf(entries, generateCacheKey(identifier, ""), now)} })

\* The outcomes of a request that generated a script.
Generated == {"ok", "minimal", "failed", "cancelled"}

GenerateBootScript(identifier, fate) ==
    \E g \in {GenerateOf(identifier, fate)} :
        /\ entries' = g.entries
        /\ hsmCache' = g.cache
        /\ response' = [op |-> "Generate", identifier |-> identifier,
                        err |-> g.err, script |-> g.script, outcome |-> g.outcome,
                        trace |-> g.trace, before |-> entries,
                        previous |-> history[identifier]]
        /\ history' = IF g.outcome \in Generated
                        THEN [history EXCEPT ![identifier] =
                                [status |-> "live", at |-> now, script |-> g.script,
                                 cached |-> g.outcome = "ok",
                                 node |-> g.node, cfg |-> g.cfg]]
                        ELSE history
        /\ UNCHANGED <<now, ttl, sweepAt, ret, lastSet, store, hsm, resolved,
                       configs, lockVars, serviceVars, providerVars>>

GenNodeIDs == {"x1"}
GenConfigIDs == {"c1"}

\* InvalidateForNode: the CRUD layer, after a write of the node.
InvalidateForNode(nodeID) ==
    /\ entries' = DeleteKeys(entries, NodeKeys(entries, nodeID))
    /\ history' = [i \in GenIdentifiers |->
                      IF history[i].status = "live" /\ history[i].node = nodeID
                        THEN [status |-> "invalidated"] ELSE history[i]]
    /\ response' = NoResponse
    /\ UNCHANGED <<now, ttl, sweepAt, ret, lastSet, configs, lockVars, serviceVars, resolveVars, providerVars>>

\* InvalidateForConfig: the CRUD layer, after a write of the configuration.
InvalidateForConfig(configID) ==
    /\ entries' = DeleteKeys(entries, ConfigKeys(entries, configID))
    /\ history' = [i \in GenIdentifiers |->
                      IF history[i].status = "live" /\ history[i].cfg = configID
                        THEN [status |-> "invalidated"] ELSE history[i]]
    /\ response' = NoResponse
    /\ UNCHANGED <<now, ttl, sweepAt, ret, lastSet, configs, lockVars, serviceVars, resolveVars, providerVars>>

\* The configurations of the store change.
ConfigWrite(cfgs) ==
    /\ configs # cfgs
    /\ configs' = cfgs
    /\ response' = NoResponse
    /\ UNCHANGED <<now, cacheVars, lockVars, serviceVars, resolveVars, history, providerVars>>

\* The clock advances, up to GenMaxTime.  A call whose script is older than
\* the TTL is remembered as such only.
GenMaxTime == 3

GenTick ==
    /\ now < GenMaxTime
    /\ now' = now + 1
    /\ history' = [i \in GenIdentifiers |->
                      IF history[i].status = "live" /\ now' > history[i].at + ttl
                        THEN [status |-> "stale"] ELSE history[i]]
    /\ response' = NoResponse
    /\ UNCHANGED <<cacheVars, configs, lockVars, serviceVars, resolveVars, providerVars>>

\* The node the boot service holds at times in this specification, and the
\* inventories of the HSM: nothing, or x1 and x2 with their interfaces.
GenStoreNodes == {NodeSpec("x1", 1, "m1")}
GenInventories == {inv \in HSMInventories : Len(inv.interfaces) # 1}

InitGen ==
    /\ now = 0
    /\ NewScriptCache(2)
    /\ LockIdle
    /\ ResolveIdle
    /\ GenIdle
    /\ ServiceIdle
    /\ ProviderIdle

NextGen ==
    \/ \E identifier \in GenIdentifiers, fate \in Fates :
          GenerateBootScript(identifier, fate)
    \/ \E nodeID \in GenNodeIDs : InvalidateForNode(nodeID)
    \/ \E configID \in GenConfigIDs : InvalidateForConfig(configID)
    \/ \E cfgs \in ConfigLists : ConfigWrite(cfgs)
    \/ \E n \in GenStoreNodes : StoreCreate(n)
    \/ \E i \in 1..Len(store.nodes) : StoreDelete(i)
    \/ \E inv \in GenInventories : HSMDiscover(inv)
    \/ GenTick

SpecGen == InitGen /\ [][NextGen]_vars

----------------------------------------------------------------------------
(* Claims about the controller, checked under SpecGen. *)

Returned == response.op = "Generate"

HasDirective(script, directive) ==
    \E k \in 1..Len(script) : script[k].directive = directive

\* Neither the store nor the HSM holds a node under the identifier of the
\* request that just returned.
UnknownEverywhere ==
    /\ \A k \in 1..Len(store.nodes) :
          /\ store.nodes[k].XName # response.identifier
          /\ Itoa(store.nodes[k].NID) # response.identifier
          /\ store.nodes[k].BootMAC # response.identifier
    /\ \A x \in hsm.components :
          x.ID # response.identifier /\ Itoa(x.NID) # response.identifier
    /\ \A k \in 1..Len(hsm.interfaces) :
          hsm.interfaces[k].MACAddress # response.identifier

\* The script of a request for a node nobody knows: header first, a retry,
\* no kernel.
FallbackScript ==
    /\ response.err = ""
    /\ Len(response.script) > 0
    /\ response.script[1].directive = "#!ipxe"
    /\ HasDirective(response.script, "retry")
    /\ ~HasDirective(response.script, "kernel")

\* C1 as stated: GenerateBootScript returns an error only for an empty or
\* malformed identifier; for every well-formed identifier that resolves
\* neither in the store nor in the provider it returns, without error, a
\* script that begins with the #!ipxe header, contains a retry directive and
\* references no kernel.
C1_UnknownNodeGetsFallbackScript ==
    Returned =>
        /\ response.err # "" =>
              response.identifier = "" \/ response.identifier = "bad id"
        /\ (response.identifier \notin {"", "bad id"} /\ UnknownEverywhere) =>
              FallbackScript

\* The HSM client's response cache holds no unexpired component for the
\* identifier of the request that just returned.
NoCachedComponent ==
    LET cacheKey == "component_" \o response.identifier
    IN  \/ cacheKey \notin DOMAIN hsmCache.components
        \/ now > hsmCache.components[cacheKey].ExpiresAt

\* C1 as amended: an error is returned only for an empty or malformed
\* identifier; a well-formed identifier that resolves neither in the store
\* nor in the provider gets the fallback script (header, retry, no kernel)
\* provided the script cache held no unexpired script for it and the
\* provider's response cache no unexpired component.
C1_UnknownUncachedNodeGetsFallbackScript ==
    Returned =>
        /\ response.err # "" =>
              response.identifier = "" \/ response.identifier = "bad id"
        /\ (/\ response.identifier \notin {"", "bad id"}
            /\ UnknownEverywhere
            /\ response.outcome # "cached"
            /\ NoCachedComponent) => FallbackScript

\* A request for a node nobody knows, made while a configuration exists,
\* ended with the error script.
C1_Witness ==
    /\ Returned
    /\ response.identifier = "x1"
    /\ UnknownEverywhere
    /\ NoCachedComponent
    /\ response.outcome = "failed"
    /\ configs # <<>>
    /\ FallbackScript

\* C6 as stated: a second GenerateBootScript for the same identifier, issued
\* before the TTL expires and with no invalidation in between, returns the
\* byte-identical script of the first call from the cache, even if the data
\* changed in between; once the TTL has expired or the entry was
\* invalidated, the next request generates the script anew.
C6_SecondCallServedFromCache ==
    (Returned /\ response.err = "") =>
        /\ (/\ response.previous.status = "live"
            /\ now < response.previous.at + ttl) =>
              /\ response.outcome = "cached"
              /\ response.script = response.previous.script
        /\ response.previous.status \in {"stale", "invalidated"} =>
              response.outcome # "cached"

\* C6 as amended: the same, for a first call that rendered the full script
\* and cached it; a first call that returned a fallback script (minimal or
\* error template) cached nothing.
C6_SecondCallServedFromCacheAfterFullRender ==
    (Returned /\ response.err = "") =>
        /\ (/\ response.previous.status = "live"
            /\ response.previous.cached
            /\ now < response.previous.at + ttl) =>
              /\ response.outcome = "cached"
              /\ response.script = response.previous.script
        /\ (/\ response.previous.status = "live"
            /\ ~response.previous.cached) => response.outcome # "cached"
        /\ response.previous.status \in {"stale", "invalidated"} =>
              response.outcome # "cached"

\* A second call, made after the node vanished from the store and from the
\* HSM, was served the first call's script from the cache.
C6_Witness ==
    /\ Returned
    /\ response.previous.status = "live"
    /\ response.previous.cached
    /\ now < response.previous.at + ttl
    /\ store.nodes = <<>>
    /\ hsm.components = {}
    /\ response.outcome = "cached"
    /\ HasDirective(response.script, "kernel")

\* The order of the steps of a request.
StepOrder == <<"lookup", "resolve", "match", "render", "cache">>

InStepOrder(trace) ==
    Len(trace) <= Len(StepOrder) /\ trace = SubSeq(StepOrder, 1, Len(trace))

\* C7 as stated: within one request resolution, matching, rendering and
\* caching happen strictly in that order, and the script cache is written
\* only after a fully successful render: a request that is cancelled or
\* fails before rendering completes leaves the script cache exactly as it
\* was.
C7_FailedRequestLeavesCacheAsItWas ==
    Returned =>
        /\ InStepOrder(response.trace)
        /\ response.outcome \in {"cancelled", "failed"} =>
              entries = response.before

\* C7 as amended: the steps happen in that order and an entry is added or
\* replaced only after a fully successful render; a request that is
\* cancelled or fails leaves every unexpired entry as it was, and the only
\* change it can make is the removal of the expired entry of its own key by
\* the lookup.
C7_FailedRequestWritesNoEntry ==
    Returned =>
        /\ InStepOrder(response.trace)
        /\ response.outcome # "ok" =>
              /\ \A k \in DOMAIN entries :
                    k \in DOMAIN response.before /\ entries[k] = response.before[k]
              /\ \A k \in DOMAIN response.before \ DOMAIN entries :
                    /\ k = response.identifier \o ":default"
                    /\ now > response.before[k].ExpiresAt
        /\ response.outcome = "ok" <=>
              (Len(response.trace) = Len(StepOrder) /\ response.trace[5] = "cache")

\* A cancelled request whose lookup removed the expired entry of its key.
C7_Witness ==
    /\ Returned
    /\ response.outcome = "cancelled"
    /\ response.before # <<>>
    /\ entries = <<>>

\* C27: every script GenerateBootScript returns, rendered from the full,
\* the minimal or the error template or served from the cache, begins with
\* the line #!ipxe.
C27_EveryScriptBeginsWithHeader ==
    (Returned /\ response.err = "") =>
        /\ Len(response.script) > 0
        /\ response.script[1] = Line("#!ipxe", "")
        /\ \A id \in GenIdentifiers :
              history[id].status = "live" => history[id].script[1].directive = "#!ipxe"

\* The error template was returned for an identifier for which a script was
\* generated before.
C27_Witness ==
    /\ Returned
    /\ response.outcome = "failed"
    /\ HasDirective(response.script, "#")
    /\ response.script[1].directive = "#!ipxe"
    /\ response.previous.status = "live"

----------------------------------------------------------------------------
(* The declarative-file provider (pkg/clients/local/yaml_provider.go): the *)
(* nodes of one YAML file, indexed under each of their identifiers.        *)

\* YAMLNode, the fields the provider and the synchronizer read.
YAMLNode(id, xname, type, role, subRole, state, nid, bootMAC, interfaces) ==
    [ID |-> id, XName |-> xname, Type |-> type, Role |-> role,
     SubRole |-> subRole, State |-> state, NID |-> nid, BootMAC |-> bootMAC,
     EthernetInterfaces |-> interfaces]

\* A compute node that is ready, as the files of the tests describe them.
ComputeNode(id, xname, nid, bootMAC, interfaces) ==
    YAMLNode(id, xname, "Node", "Compute", "", "Ready", nid, bootMAC, interfaces)

\* The files the provider is given:
\*   no node; node n1 alone, its boot MAC written in capital letters; n1 and
\*   n2; n1 and n2 where an interface of n2 carries the address that is the
\*   boot MAC of n1 (a stale duplicate); two nodes without an xname.
YAMLFiles ==
    { YAMLFile(<<>>),
      YAMLFile(<<ComputeNode("n1", "x1", 1, "M1", <<>>)>>),
      YAMLFile(<<ComputeNode("n1", "x1", 1, "M1", <<>>),
                 ComputeNode("n2", "x2", 2, "m2", <<>>)>>),
      YAMLFile(<<ComputeNode("n1", "x1", 1, "M1", <<>>),
                 ComputeNode("n2", "x2", 2, "m2", <<"m1">>)>>),
      YAMLFile(<<ComputeNode("n1", "", 0, "m1", <<>>),
                 ComputeNode("n2", "", 0, "m2", <<>>)>>) }

\* A file that cannot be read, and one that is not YAML.
BrokenFiles == { [err |-> "reading YAML file"], [err |-> "parsing YAML"] }

\* The identifiers the provider is asked for.
YAMLIdentifiers == {"n1", "n2", "x1", "x2", "m1", "M1", "m2", "1", "2", "x9"}

\* The keys under which loadNodes files a node: its ID, its XName, its boot
\* MAC and the MACs of its interfaces in lower case, and its NID in decimal
\* when it is positive; empty identifiers are no keys.
IndexKeys(node) ==
    ({node.ID, node.XName, ToLower(node.BootMAC)} \ {""})
    \cup ({ToLower(node.EthernetInterfaces[i]) :
              i \in 1..Len(node.EthernetInterfaces)} \ {""})
    \cup (IF node.NID > 0 THEN {Itoa(node.NID)} ELSE {})

\* The loop of loadNodes over the first n nodes of the file: each node is
\* assigned to its keys, a later node overwrites an earlier one.
RECURSIVE IndexOf(_, _)
IndexOf(fileNodes, n) ==
    IF n = 0 THEN <<>>
    ELSE [k \in IndexKeys(fileNodes[n]) |-> fileNodes[n]]
            @@ IndexOf(fileNodes, n - 1)

loadNodesMutClearFirst(file, index) ==
    IF file.err # ""
      THEN [err |-> file.err, nodes |-> <<>>]
      ELSE [err |-> "", nodes |-> IndexOf(file.Nodes, Len(file.Nodes))]

\* YAMLNodeProvider.loadNodes: the file is read and parsed first; only then
\* is the index replaced.
loadNodes(file, index) ==
    IF file.err # ""
      THEN [err |-> file.err, nodes |-> index]
      ELSE [err |-> "", nodes |-> IndexOf(file.Nodes, Len(file.Nodes))]

\* The reload that GetNodeByIdentifier and GetAllNodes start with when
\* autoReload is set.
AutoReload ==
    IF autoReload THEN loadNodes(yamlFile, yamlNodes)
    ELSE [err |-> "", nodes |-> yamlNodes]

\* What a call that ran loadNodes with result l leaves of the history.
LastGoodAfter(ran, l) == IF ran /\ l.err = "" THEN yamlFile.Nodes ELSE lastGood

\* The two lookups of GetNodeByIdentifier: the identifier as given, then in
\* lower case.
LookupOf(index, identifier) ==
    IF identifier \in DOMAIN index
      THEN [err |-> "", node |-> index[identifier]]
    ELSE IF ToLower(identifier) \in DOMAIN index
      THEN [err |-> "", node |-> index[ToLower(identifier)]]
    ELSE [err |-> "node not found for identifier", node |-> NilNode]

\* YAMLNodeProvider.GetNodeByIdentifier
GetNodeByIdentifier(identifier) ==
    \E l \in {AutoReload} :
        /\ yamlNodes' = l.nodes
        /\ lastGood' = LastGoodAfter(autoReload, l)
        /\ yamlRet' = [op |-> "GetNodeByIdentifier", identifier |-> identifier,
                       reloadErr |-> l.err, before |-> yamlNodes]
                      @@ LookupOf(l.nodes, identifier)
        /\ UNCHANGED <<now, yamlFile, autoReload, clientVars, synced,
                       cacheVars, lockVars, serviceVars, resolveVars, genVars>>

\* The lists GetAllNodes can build from the index: it ranges over the map
\* in an order the runtime chooses and appends a node unless a node of the
\* same XName was appended before, so the list holds one node for each XName
\* of the index, whichever of them the range met first, in any order.
GetAllNodesOutcomes(index) ==
    LET values == {index[k] : k \in DOMAIN index}
        names == {v.XName : v \in values}
    IN  {list \in [1..Cardinality(names) -> values] :
            \A i, j \in 1..Cardinality(names) :
                i # j => list[i].XName # list[j].XName}

\* YAMLNodeProvider.GetAllNodes
GetAllNodes ==
    \E l \in {AutoReload} :
        \E list \in GetAllNodesOutcomes(l.nodes) :
            /\ yamlNodes' = l.nodes
            /\ lastGood' = LastGoodAfter(autoReload, l)
            /\ yamlRet' = [op |-> "GetAllNodes", reloadErr |-> l.err,
                           before |-> yamlNodes, err |-> "", nodes |-> list]
            /\ UNCHANGED <<now, yamlFile, autoReload, clientVars, synced,
                           cacheVars, lockVars, serviceVars, resolveVars, genVars>>

\* YAMLNodeProvider.Reload: loadNodes, whose error is returned.
Reload ==
    \E l \in {loadNodes(yamlFile, yamlNodes)} :
        /\ yamlNodes' = l.nodes
        /\ lastGood' = LastGoodAfter(TRUE, l)
        /\ yamlRet' = [op |-> "Reload", reloadErr |-> l.err,
                       before |-> yamlNodes, err |-> l.err]
        /\ UNCHANGED <<now, yamlFile, autoReload, clientVars, synced,
                       cacheVars, lockVars, serviceVars, resolveVars, genVars>>

\* YAMLNodeProvider.HealthCheck: the file loads and the index is not empty.
YAMLHealthCheck ==
    \E l \in {loadNodes(yamlFile, yamlNodes)} :
        /\ yamlNodes' = l.nodes
        /\ lastGood' = LastGoodAfter(TRUE, l)
        /\ yamlRet' = [op |-> "HealthCheck", reloadErr |-> l.err,
                       before |-> yamlNodes,
                       err |-> IF l.err # "" THEN "YAML health check failed"
                               ELSE IF DOMAIN l.nodes = {}
                                 THEN "YAML file contains no nodes"
                               ELSE ""]
        /\ UNCHANGED <<now, yamlFile, autoReload, clientVars, synced,
                       cacheVars, lockVars, serviceVars, resolveVars, genVars>>

\* The file is rewritten, removed, or damaged.
WriteFile(file) ==
    /\ file # yamlFile
    /\ yamlFile' = file
    /\ yamlRet' = NoYAMLCall
    /\ UNCHANGED <<now, yamlNodes, autoReload, lastGood, clientVars, synced,
                   cacheVars, lockVars, serviceVars, resolveVars, genVars>>

\* NewYAMLNodeProvider: the file is loaded once, and the provider exists
\* only if that worked.
NewYAMLNodeProvider(file, reload) ==
    /\ yamlFile = file
    /\ yamlNodes = loadNodes(file, <<>>).nodes
    /\ autoReload = reload
    /\ lastGood = file.Nodes
    /\ yamlRet = NoYAMLCall

InitYAML ==
    /\ now = 0
    /\ NewScriptCache(2)
    /\ LockIdle
    /\ ResolveIdle
    /\ GenIdle
    /\ ServiceIdle
    /\ ClientIdle
    /\ synced = NoSync
    /\ \E file \in YAMLFiles, reload \in BOOLEAN : NewYAMLNodeProvider(file, reload)

NextYAML ==
    \/ \E identifier \in YAMLIdentifiers : GetNodeByIdentifier(identifier)
    \/ GetAllNodes
    \/ Reload
    \/ YAMLHealthCheck
    \/ \E file \in YAMLFiles \cup BrokenFiles : WriteFile(file)

SpecYAML == InitYAML /\ [][NextYAML]_vars

----------------------------------------------------------------------------
(* Claims about the declarative-file provider, checked under SpecYAML. *)

\* The index is the one loadNodes builds from the file as it is now.
IndexIsFresh ==
    /\ yamlFile.err = ""
    /\ yamlNodes = IndexOf(yamlFile.Nodes, Len(yamlFile.Nodes))

\* C12: for every node of the file, the lookups by its id, by its xname and
\* by its boot MAC return that node, never another node of the file.
C12_LookupsReturnTheSameNode ==
    (yamlRet.op = "GetNodeByIdentifier" /\ IndexIsFresh) =>
        \A i \in 1..Len(yamlFile.Nodes) :
            (/\ yamlRet.identifier # ""
             /\ yamlRet.identifier \in {yamlFile.Nodes[i].ID,
                                        yamlFile.Nodes[i].XName,
                                        yamlFile.Nodes[i].BootMAC})
            => (yamlRet.err = "" /\ yamlRet.node = yamlFile.Nodes[i])

\* C13: a reload that fails leaves the index as it was, so the index is
\* always that of the file parsed last, and GetNodeByIdentifier and
\* GetAllNodes answer from it; the error of the reload is not returned.
C13_FailedReloadKeepsLastGoodIndex ==
    /\ yamlNodes = IndexOf(lastGood, Len(lastGood))
    /\ (yamlRet.op \in {"GetNodeByIdentifier", "GetAllNodes", "Reload", "HealthCheck"}
        /\ yamlRet.reloadErr # "") => yamlRet.before = yamlNodes
    /\ (yamlRet.op = "GetNodeByIdentifier" /\ yamlRet.reloadErr # "") =>
          /\ yamlRet.err = LookupOf(IndexOf(lastGood, Len(lastGood)),
                                    yamlRet.identifier).err
          /\ yamlRet.node = LookupOf(IndexOf(lastGood, Len(lastGood)),
                                     yamlRet.identifier).node
    /\ (yamlRet.op = "GetAllNodes" /\ yamlRet.reloadErr # "") =>
          /\ yamlRet.err = ""
          /\ yamlRet.nodes \in GetAllNodesOutcomes(IndexOf(lastGood, Len(lastGood)))

\* A lookup found a node and a listing returned nodes although the reload
\* they started with had failed.
C13_Witness ==
    /\ yamlRet.op \in {"GetNodeByIdentifier", "GetAllNodes"}
    /\ yamlRet.reloadErr # ""
    /\ yamlFile.err # ""
    /\ yamlRet.err = ""
    /\ yamlNodes # <<>>
    /\ yamlRet.op = "GetAllNodes" => Len(yamlRet.nodes) = 2

\* C14: GetAllNodes returns every node of the file exactly once.
C14_ListAllReturnsEveryNodeOnce ==
    (yamlRet.op = "GetAllNodes" /\ IndexIsFresh) =>
        \A i \in 1..Len(yamlFile.Nodes) :
            Cardinality({j \in 1..Len(yamlRet.nodes) :
                            yamlRet.nodes[j] = yamlFile.Nodes[i]}) = 1

\* C17 (declarative file): a lookup that fails while the file cannot be read
\* reports that the source is unavailable, not that the node does not exist.
C17_UnreadableFileIsNotNotFound ==
    (/\ yamlRet.op = "GetNodeByIdentifier"
     /\ yamlRet.reloadErr # ""
     /\ yamlRet.err # "")
    => yamlRet.err # "node not found for identifier"

----------------------------------------------------------------------------
(* The HSM client by itself (pkg/clients/hsm/client.go): its calls, the    *)
(* HTTP requests they send, and its response cache.                        *)

\* HSMConfig.AuthToken: none, or a token.
AuthTokens == {"", "t0"}

\* The component identifiers and MAC addresses the client is asked for.
ClientComponentIDs == {"x1", "x9"}
ClientMACs == {"m1"}

\* A call of the client returned r: the cache it leaves, the fetches it
\* made, and the record of the call (with the history as the call found it).
Call(op, key, r) ==
    /\ hsmCache' = r.cache
    /\ fetchedAt' = [k \in r.fetched |-> now] @@ fetchedAt
    /\ called' = [op |-> op, key |-> key, err |-> r.err,
                  requests |-> r.requests, at |-> now, before |-> fetchedAt]
    /\ UNCHANGED <<now, store, hsm, resolved, authToken, yamlVars, synced,
                   cacheVars, lockVars, serviceVars, genVars>>

CallGetComponents ==
    \E r \in {GetComponents(hsmCache)} : Call("GetComponents", "all_components", r)

CallGetComponent(componentID) ==
    \E r \in {GetComponent(hsmCache, componentID)} :
        Call("GetComponent", "component_" \o componentID, r)

CallGetEthernetInterfaces ==
    \E r \in {GetEthernetInterfaces(hsmCache)} :
        Call("GetEthernetInterfaces", "all_ethernet", r)

CallGetComponentByMAC(macAddress) ==
    \E r \in {GetComponentByMAC(hsmCache, macAddress)} :
        Call("GetComponentByMAC", macAddress, r)

\* HSMClient.Health: GET /hsm/v2/service/ready, never cached.
Health ==
    Call("Health", "", [err |-> ~hsm.up, cache |-> hsmCache,
                        requests |-> <<HealthRequest>>, fetched |-> {}])

\* HSMClient.ClearCache: both maps are replaced by empty ones.
ClearCache ==
    /\ hsmCache' = NewHSMCache
    /\ fetchedAt' = <<>>
    /\ called' = NoCall
    /\ UNCHANGED <<now, store, hsm, resolved, authToken, yamlVars, synced,
                   cacheVars, lockVars, serviceVars, genVars>>

\* NewHSMClient with a configuration that has a token or none.
InitHSM ==
    /\ now = 0
    /\ NewScriptCache(2)
    /\ LockIdle
    /\ ResolveIdle
    /\ GenIdle
    /\ ServiceIdle
    /\ YAMLIdle
    /\ synced = NoSync
    /\ authToken \in AuthTokens
    /\ called = NoCall
    /\ fetchedAt = <<>>

NextHSM ==
    \/ CallGetComponents
    \/ \E componentID \in ClientComponentIDs : CallGetComponent(componentID)
    \/ CallGetEthernetInterfaces
    \/ \E macAddress \in ClientMACs : CallGetComponentByMAC(macAddress)
    \/ Health
    \/ ClearCache
    \/ HSMOutage
    \/ \E inv \in HSMInventories : HSMDiscover(inv)
    \/ TickResolve

SpecHSM == InitHSM /\ [][NextHSM]_vars

----------------------------------------------------------------------------
(* Claims about the HSM client, checked under SpecHSM. *)

\* The calls whose answer the client caches under a key of their own.
CachedShapes == {"GetComponents", "GetComponent", "GetEthernetInterfaces"}

\* C15: once the server answered a fetch of a request shape, a later query
\* of that shape sends no request as long as the cached answer has not
\* expired, and the first query after the expiry sends exactly one.
C15_CacheHitIssuesNoCall ==
    (called.op \in CachedShapes /\ called.key \in DOMAIN called.before) =>
        /\ called.at <= called.before[called.key] + HSMCacheExpiry =>
              (called.requests = <<>> /\ ~called.err)
        /\ called.at > called.before[called.key] + HSMCacheExpiry =>
              Len(called.requests) = 1

\* A query is answered from the cache, without a request, while the server
\* is down.
C15_Witness ==
    /\ called.op \in CachedShapes
    /\ called.key \in DOMAIN called.before
    /\ called.at <= called.before[called.key] + HSMCacheExpiry
    /\ called.requests = <<>>
    /\ ~called.err
    /\ ~hsm.up

\* C16: with a token configured, every request the client sends carries it
\* as a bearer token.
C16_EveryRequestCarriesToken ==
    (called.op # "none" /\ authToken # "") =>
        \A i \in 1..Len(called.requests) :
            called.requests[i].Authorization = "Bearer " \o authToken

----------------------------------------------------------------------------
(* The synchronizer of the HSM integration service: SyncNodesFromHSM       *)
(* copies the compute nodes of the HSM into the boot service's store.      *)

\* HSMComponent and HSMEthernetInterface with the fields the synchronizer
\* reads.
SyncComponent(id, type, role, subRole, nid) ==
    [ID |-> id, Type |-> type, Role |-> role, SubRole |-> subRole, NID |-> nid]

SyncInterface(mac, id, type) ==
    [MACAddress |-> mac, ComponentID |-> id, Type |-> type]

\* A node of the store: its NodeSpec and the State of its NodeStatus.
StoredNode(xname, nid, bootMAC, role, subRole, state) ==
    [XName |-> xname, NID |-> nid, BootMAC |-> bootMAC, Role |-> role,
     SubRole |-> subRole, State |-> state]

\* The inventories of the HSM server: compute node x1 and router module x3;
\* the same after the NIC of x1 was replaced; x1 with a sub-role, the
\* application node x2 and x3; x1 with two interfaces.
SyncInventories ==
    { [components |-> {SyncComponent("x1", "Node", "Compute", "", 1),
                       SyncComponent("x3", "RouterModule", "Service", "", 0)},
       interfaces |-> <<SyncInterface("m1", "x1", "Node")>>],
      [components |-> {SyncComponent("x1", "Node", "Compute", "", 1),
                       SyncComponent("x3", "RouterModule", "Service", "", 0)},
       interfaces |-> <<SyncInterface("m2", "x1", "Node")>>],
      [components |-> {SyncComponent("x1", "Node", "Compute", "Worker", 1),
                       SyncComponent("x2", "Node", "Application", "", 2),
                       SyncComponent("x3", "RouterModule", "Service", "", 0)},
       interfaces |-> <<SyncInterface("m1", "x1", "Node"),
                        SyncInterface("m2", "x2", "Node")>>],
      [components |-> {SyncComponent("x1", "Node", "Compute", "", 1),
                       SyncComponent("x3", "RouterModule", "Service", "", 0)},
       interfaces |-> <<SyncInterface("m1", "x1", "Node"),
                        SyncInterface("m2", "x1", "Node")>>] }

\* The order in which the HSM lists its components.
SyncOrder == <<"x1", "x2", "x3">>

\* The filter of SyncNodesFromHSM: nodes whose role is Compute or Application.
IsComputeNode(comp) ==
    comp.Type = "Node" /\ comp.Role \in {"Compute", "Application"}

\* macMap[componentID]: the address of the last interface of type Node that
\* belongs to the component, "" when there is none.
MacOf(interfaces, componentID) ==
    LET mine == {k \in 1..Len(interfaces) :
                    /\ interfaces[k].Type = "Node"
                    /\ interfaces[k].ComponentID = componentID}
    IN  IF mine = {} THEN ""
        ELSE interfaces[CHOOSE k \in mine : \A j \in mine : j <= k].MACAddress

\* existingMap[xname]: the index of the last stored node of that XName, 0
\* when there is none.
ExistingOf(nodes, xname) ==
    LET mine == {k \in 1..Len(nodes) : nodes[k].XName = xname}
    IN  IF mine = {} THEN 0 ELSE CHOOSE k \in mine : \A j \in mine : j <= k

needsUpdateMutNever(comp, bootMAC, existing) == FALSE

\* IntegrationService.needsUpdate
needsUpdate(comp, bootMAC, existing) ==
    \/ comp.NID # existing.NID
    \/ comp.Role # existing.Role
    \/ comp.SubRole # existing.SubRole
    \/ bootMAC # existing.BootMAC

\* What syncNode does for one component: "created", "updated", "skipped", or
\* "failed" when the store refuses the request.
SyncNodeDoes(nodes, comp, bootMAC, failing) ==
    IF ExistingOf(nodes, comp.ID) = 0
      THEN IF comp.ID \in failing THEN "failed" ELSE "created"
    ELSE IF ~needsUpdate(comp, bootMAC, nodes[ExistingOf(nodes, comp.ID)])
      THEN "skipped"
    ELSE IF comp.ID \in failing THEN "failed" ELSE "updated"

SyncNodeLeavesMutPrunes(nodes, comp, bootMAC, failing) ==
    <<StoredNode(comp.ID, comp.NID, bootMAC, comp.Role, comp.SubRole, "")>>

\* The store after syncNode: CreateNode appends a node with the NodeSpec of
\* the request, UpdateNode replaces the NodeSpec of the existing node.
SyncNodeLeaves(nodes, comp, bootMAC, failing) ==
    \* the status of a node is not part of either request
    CASE SyncNodeDoes(nodes, comp, bootMAC, failing) = "created" ->
            Append(nodes, StoredNode(comp.ID, comp.NID, bootMAC, comp.Role,
                                     comp.SubRole, ""))
      [] SyncNodeDoes(nodes, comp, bootMAC, failing) = "updated" ->
            [nodes EXCEPT ![ExistingOf(nodes, comp.ID)] =
                StoredNode(comp.ID, comp.NID, bootMAC, comp.Role, comp.SubRole,
                           @.State)]
      [] OTHER -> nodes

\* The loop of SyncNodesFromHSM over the first n names of the HSM's list:
\* syncNode for every compute node.  (Component IDs are unique, so what the
\* loop did for the components before this one changes neither whether this
\* one exists nor the node it is compared with.)
RECURSIVE SyncLoop(_, _, _, _, _)
SyncLoop(existingNodes, components, interfaces, failing, n) ==
    IF n = 0 THEN existingNodes
    ELSE The({ IF \E comp \in components :
                     comp.ID = SyncOrder[n] /\ IsComputeNode(comp)
                 THEN SyncNodeLeaves(sofar,
                          CHOOSE comp \in components : comp.ID = SyncOrder[n],
                          MacOf(interfaces, SyncOrder[n]), failing)
                 ELSE sofar
               : sofar \in {SyncLoop(existingNodes, components, interfaces,
                                     failing, n - 1)} })

\* The compute nodes for which syncNode did `what`.
SyncedAs(what, existingNodes, components, interfaces, failing) ==
    {comp.ID : comp \in {x \in components :
        /\ IsComputeNode(x)
        /\ SyncNodeDoes(existingNodes, x, MacOf(interfaces, x.ID), failing) = what}}

\* SyncNodesFromHSM as a function of the HSM, the client's cache and the
\* store, when the store refuses the requests for the names in `failing`:
\* its error, the components and interfaces the client returned, the cache
\* and the stored nodes it leaves.
SyncOf(failing) ==
    The({ IF c.err
            THEN [err |-> "failed to get components from HSM",
                  cache |-> c.cache, nodes |-> store.nodes]
          ELSE The({ IF e.err
                       THEN [err |-> "failed to get ethernet interfaces from HSM",
                             cache |-> e.cache, nodes |-> store.nodes]
                     ELSE IF ~store.up
                       THEN [err |-> "failed to get existing nodes",
                             cache |-> e.cache, nodes |-> store.nodes]
                     ELSE [err |-> "", cache |-> e.cache,
                           components |-> c.components,
                           interfaces |-> e.interfaces,
                           nodes |-> SyncLoop(store.nodes, c.components,
                                        e.interfaces, failing, Len(SyncOrder)),
                           created |-> SyncedAs("created", store.nodes,
                                        c.components, e.interfaces, failing),
                           updated |-> SyncedAs("updated", store.nodes,
                                        c.components, e.interfaces, failing),
                           failed |-> SyncedAs("failed", store.nodes,
                                        c.components, e.interfaces, failing)]
                     : e \in {GetEthernetInterfaces(c.cache)} })
          : c \in {GetComponents(hsmCache)} })

\* The names for which the store can refuse a request.
SyncNames == {"x1", "x2"}

\* Whether the run before this one was a SyncNodesFromHSM that returned no
\* error and in which every request succeeded, with nothing changed since.
AfterHSMSuccess ==
    /\ synced.op = "SyncNodesFromHSM"
    /\ synced.err = ""
    /\ synced.failed = {}

\* IntegrationService.SyncNodesFromHSM
SyncNodesFromHSM(failing) ==
    \E r \in {SyncOf(failing)} :
        /\ hsmCache' = r.cache
        /\ store' = [store EXCEPT !.nodes = r.nodes]
        /\ synced' = [op |-> "SyncNodesFromHSM", before |-> store.nodes,
                       after |-> AfterHSMSuccess] @@ r
        /\ UNCHANGED <<now, hsm, resolved, yamlVars, clientVars,
                       cacheVars, lockVars, serviceVars, genVars>>

\* The inventory of the HSM server changes.
SyncDiscover(inv) ==
    /\ hsm.components # inv.components \/ hsm.interfaces # inv.interfaces
    /\ hsm' = [hsm EXCEPT !.components = inv.components,
                          !.interfaces = inv.interfaces]
    /\ synced' = NoSync
    /\ UNCHANGED <<now, store, hsmCache, resolved, yamlVars, clientVars,
                   cacheVars, lockVars, serviceVars, genVars>>

\* The HSM server starts or stops to answer.
SyncHSMOutage ==
    /\ hsm' = [hsm EXCEPT !.up = ~@]
    /\ synced' = NoSync
    /\ UNCHANGED <<now, store, hsmCache, resolved, yamlVars, clientVars,
                   cacheVars, lockVars, serviceVars, genVars>>

\* bootClient.GetNodes starts or stops to fail.
SyncStoreOutage ==
    /\ store' = [store EXCEPT !.up = ~@]
    /\ synced' = NoSync
    /\ UNCHANGED <<now, hsm, hsmCache, resolved, yamlVars, clientVars,
                   cacheVars, lockVars, serviceVars, genVars>>

\* A node is deleted from the store.
StoreRemove(i) ==
    /\ i \in 1..Len(store.nodes)
    /\ store' = [store EXCEPT !.nodes =
                    SubSeq(@, 1, i - 1) \o SubSeq(@, i + 1, Len(@))]
    /\ synced' = NoSync
    /\ UNCHANGED <<now, hsm, hsmCache, resolved, yamlVars, clientVars,
                   cacheVars, lockVars, serviceVars, genVars>>

\* The clock advances, up to SyncMaxTime.
SyncMaxTime == 2

SyncTick ==
    /\ now < SyncMaxTime
    /\ now' = now + 1
    /\ synced' = NoSync
    /\ UNCHANGED <<store, hsm, hsmCache, resolved, yamlVars, clientVars,
                   cacheVars, lockVars, serviceVars, genVars>>

InitSync ==
    /\ now = 0
    /\ NewScriptCache(2)
    /\ LockIdle
    /\ ResolveIdle
    /\ GenIdle
    /\ ServiceIdle
    /\ ProviderIdle

NextSync ==
    \/ \E failing \in SUBSET SyncNames : SyncNodesFromHSM(failing)
    \/ \E inv \in SyncInventories : SyncDiscover(inv)
    \/ SyncHSMOutage
    \/ SyncStoreOutage
    \/ \E i \in 1..Len(store.nodes) : StoreRemove(i)
    \/ SyncTick

SpecSync == InitSync /\ [][NextSync]_vars

----------------------------------------------------------------------------
(* Claims about the HSM synchronizer, checked under SpecSync. *)

\* Every compute node the provider returned to the run has a node in the
\* store, of the same XName, with the provider's role, sub-role, boot MAC
\* and numeric id.
ComputeNodesAreStored ==
    \A comp \in synced.components :
        IsComputeNode(comp) =>
            \E i \in 1..Len(store.nodes) :
                /\ store.nodes[i].XName = comp.ID
                /\ store.nodes[i].Role = comp.Role
                /\ store.nodes[i].SubRole = comp.SubRole
                /\ store.nodes[i].BootMAC = MacOf(synced.interfaces, comp.ID)
                /\ store.nodes[i].NID = comp.NID

HSMSecondSyncDoesNothing ==
    (synced.op = "SyncNodesFromHSM" /\ synced.err = "" /\ synced.after) =>
        (synced.created = {} /\ synced.updated = {})

\* The remote-inventory side of C20: SyncNodesFromHSM writes no node for a
\* component that is not a compute node.
HSMOnlyComputeNodesAreWritten ==
    (synced.op = "SyncNodesFromHSM" /\ synced.err = "") =>
        /\ \A comp \in synced.components :
              ~IsComputeNode(comp) =>
                  comp.ID \notin (synced.created \cup synced.updated)
        /\ \A i \in 1..Len(store.nodes) :
              (\A j \in 1..Len(synced.before) : synced.before[j] # store.nodes[i])
                  => \E comp \in synced.components :
                        IsComputeNode(comp) /\ comp.ID = store.nodes[i].XName

C35_SyncAndFallbackAgreeOnBootMAC ==
    (/\ synced.op = "SyncNodesFromHSM"
     /\ synced.err = ""
     /\ synced.failed = {}) =>
        \A comp \in synced.components :
            \A cv \in {convertHSMComponentToNode(hsmCache, comp)} :
                (/\ IsComputeNode(comp)
                 /\ cv.err = ""
                 /\ GetEthernetInterfaces(hsmCache).interfaces
                        = synced.interfaces) =>
                    \A i \in 1..Len(store.nodes) :
                        store.nodes[i].XName = comp.ID =>
                            store.nodes[i].BootMAC = cv.node.BootMAC

\* C37: Sync never deletes: a node that is in the store and that the
\* provider's data do not hold as a compute node (absent, or filtered out as
\* not boot-relevant) is left in the store unchanged, at its place, by every
\* run of SyncNodesFromHSM, whether the run succeeds or fails.
ProviderSupplies(result, xname) ==
    /\ result.err = ""
    /\ \E comp \in result.components : comp.ID = xname /\ IsComputeNode(comp)

----------------------------------------------------------------------------
(* The synchronizer of the local integration service: SyncNodesFromYAML    *)
(* copies the nodes of the YAML file into the boot service's store.        *)

\* The files the synchronizer runs on: the compute node x1; x1 and the
\* router module x3, as in the file of the tests; x1 without a state.
SyncYAMLFiles ==
    { YAMLFile(<<ComputeNode("n1", "x1", 1, "M1", <<>>)>>),
      YAMLFile(<<ComputeNode("n1", "x1", 1, "M1", <<>>),
                 YAMLNode("r1", "x3", "RouterModule", "Service", "", "Ready",
                          0, "", <<>>)>>),
      YAMLFile(<<YAMLNode("n1", "x1", "Node", "Compute", "", "", 1, "M1", <<>>)>>) }

\* The names for which the store can refuse a request of SyncNodesFromYAML.
YAMLSyncNames == {"x1", "x3"}

\* IntegrationService.shouldUpdateNode.  (The numeric ids of the files are
\* small, so that int32(yamlNode.NID) is yamlNode.NID.)
shouldUpdateNode(existing, yamlNode) ==
    \/ existing.Role # yamlNode.Role
    \/ existing.SubRole # yamlNode.SubRole
    \/ existing.BootMAC # yamlNode.BootMAC
    \/ existing.State # yamlNode.State
    \/ (IF existing.NID # 0 THEN existing.NID ELSE 0) # yamlNode.NID

\* What the loop of SyncNodesFromYAML does for one node: GetNode fails when
\* the store is down or has no such node, and the node is then created;
\* a node that exists is updated if shouldUpdateNode says so.
YAMLSyncDoes(up, nodes, yamlNode, failing) ==
    IF ~up THEN "failed"
    ELSE IF ExistingOf(nodes, yamlNode.XName) = 0
      THEN IF yamlNode.XName \in failing THEN "failed" ELSE "created"
    ELSE IF ~shouldUpdateNode(nodes[ExistingOf(nodes, yamlNode.XName)], yamlNode)
      THEN "skipped"
    ELSE IF yamlNode.XName \in failing THEN "failed" ELSE "updated"

\* The store after the loop's body: the requests carry the NodeSpec, not the
\* status.
YAMLSyncLeaves(up, nodes, yamlNode, failing) ==
    CASE YAMLSyncDoes(up, nodes, yamlNode, failing) = "created" ->
            Append(nodes, StoredNode(yamlNode.XName, yamlNode.NID,
                       yamlNode.BootMAC, yamlNode.Role, yamlNode.SubRole, ""))
      [] YAMLSyncDoes(up, nodes, yamlNode, failing) = "updated" ->
            [nodes EXCEPT ![ExistingOf(nodes, yamlNode.XName)] =
                StoredNode(yamlNode.XName, yamlNode.NID, yamlNode.BootMAC,
                           yamlNode.Role, yamlNode.SubRole, @.State)]
      [] OTHER -> nodes

\* The loop of SyncNodesFromYAML over the first n nodes of the list.
RECURSIVE YAMLSyncLoop(_, _, _, _, _)
YAMLSyncLoop(up, nodes, list, failing, n) ==
    IF n = 0 THEN nodes
    ELSE The({ YAMLSyncLeaves(up, sofar, list[n], failing)
               : sofar \in {YAMLSyncLoop(up, nodes, list, failing, n - 1)} })

\* The names of the list for which the loop did `what`.
YAMLSyncedAs(what, up, nodes, list, failing) ==
    {list[k].XName : k \in {j \in 1..Len(list) :
        YAMLSyncDoes(up, nodes, list[j], failing) = what}}

\* Whether the run before this one was a SyncNodesFromYAML in which every
\* request succeeded, with nothing changed since.
AfterSuccess ==
    /\ synced.op = "SyncNodesFromYAML"
    /\ synced.failed = {}

\* IntegrationService.SyncNodesFromYAML: every node that GetAllNodes returns
\* is created or updated; there is no filter.
SyncNodesFromYAML(failing) ==
    \E l \in {AutoReload} :
        \E list \in GetAllNodesOutcomes(l.nodes) :
            /\ yamlNodes' = l.nodes
            /\ lastGood' = LastGoodAfter(autoReload, l)
            /\ yamlRet' = NoYAMLCall
            /\ store' = [store EXCEPT !.nodes =
                            YAMLSyncLoop(store.up, @, list, failing, Len(list))]
            /\ synced' = [op |-> "SyncNodesFromYAML", err |-> "",
                          list |-> list, before |-> store.nodes,
                          after |-> AfterSuccess,
                          created |-> YAMLSyncedAs("created", store.up,
                                          store.nodes, list, failing),
                          updated |-> YAMLSyncedAs("updated", store.up,
                                          store.nodes, list, failing),
                          failed |-> YAMLSyncedAs("failed", store.up,
                                          store.nodes, list, failing)]
            /\ UNCHANGED <<now, yamlFile, autoReload, hsm, hsmCache, resolved,
                           clientVars, cacheVars, lockVars, serviceVars, genVars>>

\* The file is rewritten.
SyncWriteFile(file) ==
    /\ file # yamlFile
    /\ yamlFile' = file
    /\ synced' = NoSync
    /\ UNCHANGED <<now, yamlNodes, autoReload, lastGood, yamlRet, clientVars,
                   cacheVars, lockVars, serviceVars, resolveVars, genVars>>

\* NewIntegrationService with the default AutoReload.
InitSyncYAML ==
    /\ now = 0
    /\ NewScriptCache(2)
    /\ LockIdle
    /\ ResolveIdle
    /\ GenIdle
    /\ ServiceIdle
    /\ ClientIdle
    /\ synced = NoSync
    /\ \E file \in SyncYAMLFiles : NewYAMLNodeProvider(file, TRUE)

NextSyncYAML ==
    \/ \E failing \in SUBSET YAMLSyncNames : SyncNodesFromYAML(failing)
    \/ \E file \in SyncYAMLFiles \cup BrokenFiles : SyncWriteFile(file)
    \/ SyncStoreOutage
    \/ \E i \in 1..Len(store.nodes) : StoreRemove(i)

SpecSyncYAML == InitSyncYAML /\ [][NextSyncYAML]_vars

----------------------------------------------------------------------------
(* Claims about the YAML synchronizer, checked under SpecSyncYAML. *)

\* C19: a Sync that runs right after a successful one, on unchanged data,
\* creates nothing and updates nothing.
C19_SecondSyncDoesNothing ==
    (synced.op = "SyncNodesFromYAML" /\ synced.after) =>
        (synced.created = {} /\ synced.updated = {})

\* C20: a node that is not a compute node (type Node, role Compute or
\* Application) is neither created nor updated in the store.
C20_OnlyComputeNodesAreWritten ==
    synced.op = "SyncNodesFromYAML" =>
        \A k \in 1..Len(synced.list) :
            ~IsComputeNode(synced.list[k]) =>
                synced.list[k].XName \notin (synced.created \cup synced.updated)

----------------------------------------------------------------------------
(* Claims about the sweeper of the script cache, checked under             *)
(* SpecCacheTimely.                                                        *)

\* A step of the sweeper: only cleanup restarts the wait for the next tick.
Sweeps == sweepAt' # sweepAt

\* C31: the sweeper wakes every ttl / 2; a sweep removes every entry whose
\* expiry lies before the time of the sweep and no other entry, and changes
\* none; so no entry stays in the map longer than ttl / 2 past its expiry,
\* read or not.
C31_SweepRemovesExpiredInBoundedTime ==
    /\ [](\A k \in DOMAIN entries : now <= entries[k].ExpiresAt + (ttl \div 2))
    /\ [](sweepAt <= now + (ttl \div 2))
    /\ [][Sweeps =>
            /\ sweepAt' = now + (ttl \div 2)
            /\ DOMAIN entries' = {k \in DOMAIN entries : now <= entries[k].ExpiresAt}
            /\ \A k \in DOMAIN entries' : entries'[k] = entries[k]]_vars

\* A sweep has just removed an expired entry and kept one that is valid:
\* the first key was set, never invalidated, and is gone past its expiry;
\* the second is still there.
C31_Witness ==
    /\ sweepAt = now + (ttl \div 2)
    /\ ret = NoRet
    /\ lastSet["n1:default"].status = "live"
    /\ now > lastSet["n1:default"].at + ttl
    /\ "n1:default" \notin DOMAIN entries
    /\ "n2:c1" \in DOMAIN entries
    /\ now <= entries["n2:c1"].ExpiresAt

----------------------------------------------------------------------------
(* The goroutines of the running service: runServe, the goroutine that     *)
(* waits for a signal, the synchronizer's worker (StartSyncWorker) and the *)
(* sweeper of the script cache (ScriptCache.cleanup).                      *)

\* The inventory the HSM holds while the service runs.
WorkerInventory ==
    [components |-> {SyncComponent("x1", "Node", "Compute", "", 1),
                     SyncComponent("x3", "RouterModule", "Service", "", 0)},
     interfaces |-> <<SyncInterface("m1", "x1", "Node")>>]

\* SyncNodesFromHSM(ctx) with a context that is cancelled already: a request
\* to the HSM or to the store fails with the context's error, so the call
\* returns an error at its first request that the client's cache does not
\* answer, the listing of the store at the latest, and has written nothing.
CancelledSync ==
    [err |-> "context canceled", cache |-> hsmCache, nodes |-> store.nodes]

\* What a call of SyncNodesFromHSM by the worker writes: the client's cache
\* and the store; `cycle` records the call, whether it was the first one and
\* whether the context was cancelled when it began.
SyncWrites(failing) ==
    \E r \in {IF ctxDone THEN CancelledSync ELSE SyncOf(failing)} :
        /\ hsmCache' = r.cache
        /\ store' = [store EXCEPT !.nodes = r.nodes]
        /\ cycle' = [op |-> "cycle", err |-> r.err,
                     up |-> hsm.up /\ store.up /\ ~ctxDone,
                     previous |-> IF cycle = NoCycle THEN "none" ELSE cycle.err,
                     first |-> cycle = NoCycle,
                     initial |-> worker = "started",
                     cancelled |-> ctxDone,
                     wrote |-> r.nodes # store.nodes,
                     entries |-> entries]

\* SyncNodesFromHSM as the worker calls it: it holds no reference to the
\* script cache.
WorkerSyncMutClears(failing) ==
    /\ SyncWrites(failing)
    /\ entries' = <<>>
    /\ UNCHANGED <<ttl, sweepAt, ret, lastSet>>

WorkerSync(failing) ==
    /\ SyncWrites(failing)
    /\ UNCHANGED cacheVars

\* Where the worker is after a cycle that returned err: the error is logged
\* ("HSM sync failed") and the loop goes on.
AfterCycleMutFatal(err) == IF err # "" THEN "returned" ELSE "select"

AfterCycle(err) == "select"

\* StartSyncWorker up to its loop: it returns at once when syncing is
\* disabled; else it starts the ticker and runs the initial sync, whose
\* error is logged ("Initial HSM sync failed").
WorkerStart(failing) ==
    /\ worker = "started"
    /\ IF ~syncEnabled
         THEN /\ worker' = "returned"
              /\ UNCHANGED <<hsmCache, store, cycle, cacheVars>>
         ELSE /\ WorkerSync(failing)
              /\ worker' = AfterCycle(cycle'.err)
    /\ UNCHANGED <<now, hsm, resolved, outsideWorker,
                   ctxDone, serve, shutdown, syncEnabled, tickerC, sweeper>>

\* The ticker of the worker sends a tick; the channel holds one tick at most.
TickerFires ==
    /\ worker = "select"
    /\ tickerC = 0
    /\ tickerC' = 1
    /\ UNCHANGED <<now, cacheVars, resolveVars, outsideWorker,
                   ctxDone, serve, shutdown, syncEnabled, worker, sweeper, cycle>>

\* The select of the worker takes `case <-ticker.C`: one sync cycle.
WorkerCycle(failing) ==
    /\ worker = "select"
    /\ tickerC = 1
    /\ tickerC' = 0
    /\ WorkerSync(failing)
    /\ worker' = AfterCycle(cycle'.err)
    /\ UNCHANGED <<now, hsm, resolved, outsideWorker,
                   ctxDone, serve, shutdown, syncEnabled, sweeper>>

\* The select of the worker takes `case <-ctx.Done()`: the worker returns
\* and its deferred ticker.Stop() runs.
WorkerStop ==
    /\ worker = "select"
    /\ ctxDone
    /\ worker' = "returned"
    /\ UNCHANGED <<now, cacheVars, resolveVars, outsideWorker,
                   ctxDone, serve, shutdown, syncEnabled, tickerC, sweeper, cycle>>

\* A SIGINT or SIGTERM arrives: the goroutine calls server.Shutdown.
Signal ==
    /\ shutdown = "waiting"
    /\ shutdown' = "Shutdown"
    /\ UNCHANGED <<now, cacheVars, resolveVars, outsideWorker,
                   ctxDone, serve, syncEnabled, worker, tickerC, sweeper, cycle>>

\* server.Shutdown returned (or timed out); the goroutine calls cancel().
ShutdownCancel ==
    /\ shutdown = "Shutdown"
    /\ shutdown' = "done"
    /\ ctxDone' = TRUE
    /\ UNCHANGED <<now, cacheVars, resolveVars, outsideWorker,
                   serve, syncEnabled, worker, tickerC, sweeper, cycle>>

\* ListenAndServe returns ErrServerClosed once Shutdown was called; runServe
\* goes on to `<-ctx.Done()`.
ListenAndServeCloses ==
    /\ serve = "listening"
    /\ shutdown # "waiting"
    /\ serve' = "waiting"
    /\ UNCHANGED <<now, cacheVars, resolveVars, outsideWorker,
                   ctxDone, shutdown, syncEnabled, worker, tickerC, sweeper, cycle>>

\* ListenAndServe returns another error: runServe returns "server failed"
\* and its deferred cancel() runs.
ListenAndServeFails ==
    /\ serve = "listening"
    /\ shutdown = "waiting"
    /\ serve' = "failed"
    /\ ctxDone' = TRUE
    /\ UNCHANGED <<now, cacheVars, resolveVars, outsideWorker,
                   shutdown, syncEnabled, worker, tickerC, sweeper, cycle>>

\* runServe receives from ctx.Done(), logs "Server stopped" and returns.
ServeStops ==
    /\ serve = "waiting"
    /\ ctxDone
    /\ serve' = "stopped"
    /\ UNCHANGED <<now, cacheVars, resolveVars, outsideWorker,
                   ctxDone, shutdown, syncEnabled, worker, tickerC, sweeper, cycle>>

\* The clock advances, up to WorkerMaxTime.
WorkerMaxTime == 1

WorkerTick ==
    /\ now < WorkerMaxTime
    /\ now' = now + 1
    /\ UNCHANGED <<cacheVars, lockVars, resolveVars, genVars, providerVars,
                   serviceVars>>

\* The service after runServe started its goroutines and before the initial
\* sync: the HSM holds WorkerInventory, the store is empty.
InitWorker ==
    /\ now = 0
    /\ NewScriptCache(2)
    /\ LockIdle
    /\ store = [up |-> TRUE, nodes |-> <<>>]
    /\ hsm = [up |-> TRUE] @@ WorkerInventory
    /\ hsmCache = NewHSMCache
    /\ resolved = NoResolution
    /\ GenIdle
    /\ ProviderIdle
    /\ ctxDone = FALSE
    /\ serve = "listening"
    /\ shutdown = "waiting"
    /\ syncEnabled \in BOOLEAN
    /\ worker = "started"
    /\ tickerC = 0
    /\ sweeper = "ranging"
    /\ cycle = NoCycle
    /\ MatchIdle
    /\ RaceIdle
    /\ FlightIdle
    /\ KeyIdle

\* The key under which a script is cached while the service runs.
WorkerCacheKeys == {"n1:default"}

NextWorker ==
    \/ \E failing \in SUBSET SyncNames : WorkerStart(failing)
    \/ TickerFires
    \/ \E failing \in SUBSET SyncNames : WorkerCycle(failing)
    \/ WorkerStop
    \/ Signal
    \/ ShutdownCancel
    \/ ListenAndServeCloses
    \/ ListenAndServeFails
    \/ ServeStops
    \/ \E k \in WorkerCacheKeys : Set(k, "s1", "n1", "c1")
    \/ cleanup
    \/ SyncHSMOutage
    \/ SyncStoreOutage
    \/ WorkerTick

SpecWorker == InitWorker /\ [][NextWorker]_vars

\* The scheduler runs every goroutine that can take a step, and a select
\* with several ready cases takes each of them at random: a case that stays
\* ready is taken in the end.
SpecWorkerFair ==
    /\ SpecWorker
    /\ WF_vars(\E failing \in SUBSET SyncNames : WorkerStart(failing))
    /\ WF_vars(WorkerStop)
    /\ WF_vars(ShutdownCancel)
    /\ WF_vars(ListenAndServeCloses)
    /\ WF_vars(ServeStops)
    /\ WF_vars(cleanup)

----------------------------------------------------------------------------
(* Claims about the goroutines of the service, checked under SpecWorker    *)
(* and, where a goroutine must come to an end, under SpecWorkerFair.       *)

\* C21: a sync cycle that returned an error does not end the worker: the
\* worker returns only once the context is cancelled (or when syncing is
\* disabled), and the cycle of the next tick tries anew: with the HSM and
\* the store answering it returns no error, whatever the cycle before did.
C21_FailedCycleIsNotFatal ==
    /\ worker = "returned" => (ctxDone \/ ~syncEnabled)
    /\ (cycle # NoCycle /\ cycle.up) => cycle.err = ""

\* A cycle that succeeded right after one that failed, and the worker waits
\* for the next tick.
C21_Witness ==
    /\ cycle # NoCycle
    /\ cycle.previous \notin {"none", ""}
    /\ cycle.err = ""
    /\ cycle.wrote
    /\ worker = "select"

\* A step in which the worker runs a sync: the initial one or a cycle.
CycleRuns ==
    \/ worker = "started" /\ syncEnabled /\ worker' # "started"
    \/ tickerC = 1 /\ tickerC' = 0

\* C22: no sync cycle, failed or not, changes the script cache: after the
\* cycle the cache holds the entries it held before, with the same expiry,
\* and the same ttl.
C22_CycleLeavesScriptCache ==
    [][CycleRuns => (entries' = entries /\ ttl' = ttl /\ sweepAt' = sweepAt)]_vars

\* A cycle wrote a node to the store while the cache held an entry, and the
\* cache holds it still.
C22_Witness ==
    /\ cycle # NoCycle
    /\ cycle.wrote
    /\ cycle.entries # <<>>
    /\ entries = cycle.entries

\* C23: once the context is cancelled, the synchronizer's worker and the
\* sweeper of the script cache both come to an end.
C23_WorkersEndAfterCancel ==
    ctxDone ~> (worker = "returned" /\ sweeper = "returned")

\* The half of C23 that the code keeps: the synchronizer's worker ends.
SynchronizerEndsAfterCancel == ctxDone ~> (worker = "returned")

\* What Start does keep: with syncing disabled no cycle runs and the worker
\* returns from where it started; else the initial sync runs before the
\* loop is entered, it is the first cycle, and every later cycle consumed a
\* tick.
StartRunsInitialThenPerTick ==
    /\ ~syncEnabled => (cycle = NoCycle /\ worker \in {"started", "returned"})
    /\ syncEnabled => (worker = "started" <=> cycle = NoCycle)
    /\ cycle # NoCycle => (cycle.first <=> cycle.initial)

\* C32: Start runs one synchronization at start and then one per tick;
\* disabled, it runs none; and once the context is cancelled no further
\* cycle begins: no cycle after the initial one began with the context
\* cancelled.
C32_NoCycleStartsAfterCancel ==
    /\ StartRunsInitialThenPerTick
    /\ (cycle # NoCycle /\ ~cycle.initial) => ~cycle.cancelled

\* C24: runServe reports "Server stopped" and returns only after the
\* synchronizer's worker it started has returned.
C24_ServeStopsAfterWorker ==
    serve = "stopped" => worker = "returned"

----------------------------------------------------------------------------
(* Match as a function of a node and a list of configurations.             *)

\* The nodes Match is called with: one with a boot MAC, a numeric id, a name
\* and two groups; one that only a configuration without selectors or with
\* the wildcard matches.
MatchNodes ==
    { [XName |-> "x1", NID |-> 1, BootMAC |-> "m1", Groups |-> {"g1", "g2"}],
      [XName |-> "x2", NID |-> 2, BootMAC |-> "m2", Groups |-> {}] }

MatchKernel == <<"http:", "", "s", "vmlinuz">>

\* The configurations: A, B and C of the package documentation's example
\* (110, 105 and 1 points for x1); three that score 100 for x1, by MAC, by
\* NID and a group, and by NID with priority 25; one that selects every name
\* by the wildcard; one whose selector matches neither node.
MatchConfigs ==
    { BootConfiguration("A", {}, {"m1"}, {}, {}, MatchKernel, 10),
      BootConfiguration("B", {"x1"}, {}, {}, {"g1", "g2"}, MatchKernel, 5),
      BootConfiguration("C", {}, {}, {}, {}, MatchKernel, 0),
      BootConfiguration("D", {}, {"m1"}, {}, {}, MatchKernel, 0),
      BootConfiguration("E", {}, {}, {1}, {"g1"}, MatchKernel, 0),
      BootConfiguration("F", {}, {}, {1}, {}, MatchKernel, 25),
      BootConfiguration("G", {"*"}, {}, {}, {}, MatchKernel, 0),
      BootConfiguration("H", {}, {"m9"}, {}, {}, MatchKernel, 50) }

\* The longest list of configurations Match is called with.
MaxConfigs == 2

\* The lists of at most MaxConfigs different configurations, in every order.
MatchConfigLists ==
    UNION { { l \in [1..n -> MatchConfigs] :
                \A i, j \in 1..n : i # j => l[i] # l[j] } : n \in 0..MaxConfigs }

\* A call of Match: the winner's position in the input, 0 for none, and its
\* score; `previous` is the winner of the call before on the same input,
\* if there was one (`again`).
CallMatch ==
    /\ \E w \in {Match(matchNode, matchConfigs)} :
          matched' = [op |-> "Match", winner |-> w,
                      score |-> IF w = 0 THEN 0
                                ELSE Score(matchNode, matchConfigs[w]),
                      again |-> matched # NoMatchCall,
                      previous |-> IF matched = NoMatchCall THEN w
                                   ELSE matched.winner]
    /\ UNCHANGED <<outsideMatch, matchNode, matchConfigs>>

\* The store's configurations, or the node, change.
MatchInput(node, cfgs) ==
    /\ node # matchNode \/ cfgs # matchConfigs
    /\ matchNode' = node
    /\ matchConfigs' = cfgs
    /\ matched' = NoMatchCall
    /\ UNCHANGED outsideMatch

InitMatch ==
    /\ now = 0
    /\ NewScriptCache(2)
    /\ LockIdle
    /\ ResolveIdle
    /\ GenIdle
    /\ ProviderIdle
    /\ WorkerIdle
    /\ RaceIdle
    /\ FlightIdle
    /\ KeyIdle
    /\ matchNode \in MatchNodes
    /\ matchConfigs \in MatchConfigLists
    /\ matched = NoMatchCall

NextMatch ==
    \/ CallMatch
    \/ \E node \in MatchNodes, cfgs \in MatchConfigLists : MatchInput(node, cfgs)

SpecMatch == InitMatch /\ [][NextMatch]_vars

----------------------------------------------------------------------------
(* Claims about Match, checked under SpecMatch. *)

\* The total of a configuration for the node of the call, counted from the
\* weights of the claim.
Total(cfg) ==
    (IF matchNode.BootMAC \in cfg.MACs THEN 100 ELSE 0)
    + (IF matchNode.NID \in cfg.NIDs THEN 75 ELSE 0)
    + (IF matchNode.XName \in cfg.XNames \/ "*" \in cfg.XNames THEN 50 ELSE 0)
    + 25 * Cardinality(matchNode.Groups \cap cfg.Groups)
    + (IF cfg.XNames = {} /\ cfg.MACs = {} /\ cfg.NIDs = {} /\ cfg.Groups = {}
         THEN 1 ELSE 0)
    + cfg.Priority

\* Whether a criterion of the configuration matches the node of the call.
Matches(cfg) == Total(cfg) - cfg.Priority > 0

ConfigNamed(name) == CHOOSE cfg \in MatchConfigs : cfg.Name = name

\* The input of the documentation's example: x1 against A and B, in either
\* order.
ExampleInput ==
    /\ matchNode.XName = "x1"
    /\ {matchConfigs[i] : i \in 1..Len(matchConfigs)}
          = {ConfigNamed("A"), ConfigNamed("B")}

\* C25: the score Match returns is the winner's sum of MAC 100, NID 75,
\* xname pattern 50, 25 per shared group, 1 without selectors, plus its
\* priority; no matching configuration of the input has a higher total; a
\* MAC match with priority 10 (110) beats an xname match with two groups
\* and priority 5 (105).
C25_HighestTotalWins ==
    matched.op = "Match" =>
        /\ matched.winner = 0 <=>
              \A i \in 1..Len(matchConfigs) : ~Matches(matchConfigs[i])
        /\ matched.winner # 0 =>
              /\ Matches(matchConfigs[matched.winner])
              /\ matched.score = Total(matchConfigs[matched.winner])
              /\ \A i \in 1..Len(matchConfigs) :
                    Matches(matchConfigs[i]) => Total(matchConfigs[i]) <= matched.score
        /\ ExampleInput =>
              /\ matched.score = 110
              /\ matchConfigs[matched.winner].Name = "A"

\* Match returned for the example's input with B listed first.
C25_Witness ==
    /\ matched.op = "Match"
    /\ ExampleInput
    /\ matchConfigs[1].Name = "B"
    /\ matched.winner = 2
    /\ matched.again

MatchTwiceSameWinner ==
    matched.op = "Match" => matched.previous = matched.winner

----------------------------------------------------------------------------
(* SyncNodesFromHSM statement by statement, with operators who write to    *)
(* the store through the CRUD layer while a run is in progress.            *)

\* A node of the store with the groups of its NodeSpec.
RaceNode(xname, nid, bootMAC, role, subRole, groups) ==
    [Groups |-> groups] @@ StoredNode(xname, nid, bootMAC, role, subRole, "")

\* The inventory of the HSM: the compute node x1, the application node x2
\* and a router module.
RaceInventory ==
    [components |-> {SyncComponent("x1", "Node", "Compute", "Worker", 1),
                     SyncComponent("x2", "Node", "Application", "", 2),
                     SyncComponent("x3", "RouterModule", "Service", "", 0)},
     interfaces |-> <<SyncInterface("m1", "x1", "Node"),
                      SyncInterface("m2", "x2", "Node")>>]

\* The stores a run starts with: empty; x1 as the HSM has it; x1 with an
\* outdated NID.
RaceStores ==
    { <<>>,
      <<RaceNode("x1", 1, "m1", "Compute", "Worker", {})>>,
      <<RaceNode("x1", 9, "m1", "Compute", "Worker", {})>> }

\* The groups an operator assigns, and the node an operator creates.
OperatorGroups == {{}, {"g1"}}
OperatorNodes == {RaceNode("x2", 2, "m2", "Application", "", {"g1"})}

\* computeNodes: the names of the compute nodes among the first n of the
\* HSM's list, in its order.
RECURSIVE ComputeNodes(_, _)
ComputeNodes(components, n) ==
    IF n = 0 THEN <<>>
    ELSE IF \E comp \in components : comp.ID = SyncOrder[n] /\ IsComputeNode(comp)
      THEN Append(ComputeNodes(components, n - 1), SyncOrder[n])
    ELSE ComputeNodes(components, n - 1)

\* SyncNodesFromHSM up to its loop: the components and interfaces of the
\* HSM, then the listing of the store, from which existingMap is built.
RaceList ==
    /\ run = NoRun
    /\ \E c \in {GetComponents(hsmCache)} :
          IF c.err
            THEN /\ hsmCache' = c.cache
                 /\ run' = NoRun
          ELSE \E e \in {GetEthernetInterfaces(c.cache)} :
                 /\ hsmCache' = e.cache
                 /\ run' = IF e.err \/ ~store.up THEN NoRun
                           ELSE [at |-> "loop", existing |-> store.nodes,
                                 components |-> c.components,
                                 interfaces |-> e.interfaces,
                                 todo |-> ComputeNodes(c.components, Len(SyncOrder))]
    /\ opLog' = <<>>
    /\ UNCHANGED <<store, hsm, resolved, outsideRace>>

\* The store after the request syncNode sends: CreateNode appends a node,
\* UpdateNode replaces the whole NodeSpec, Groups included, of the node with
\* the UID of the listing; the status of a node is in neither request.
WrittenBy(nodes, does, comp, bootMAC) ==
    IF does = "created"
      THEN Append(nodes, RaceNode(comp.ID, comp.NID, bootMAC, comp.Role,
                                  comp.SubRole, {}))
    ELSE IF does = "updated" /\ ExistingOf(nodes, comp.ID) # 0
      THEN [nodes EXCEPT ![ExistingOf(nodes, comp.ID)] =
              [Groups |-> {}] @@
              StoredNode(comp.ID, comp.NID, bootMAC, comp.Role, comp.SubRole,
                         @.State)]
    ELSE nodes

\* One pass of the loop: syncNode for the next compute node.  existingMap
\* is the listing of RaceList; the request goes to the store as it is now,
\* which may refuse it.
RaceSyncNode(refused) ==
    /\ run.at = "loop"
    /\ run.todo # <<>>
    /\ \E comp \in {x \in run.components : x.ID = Head(run.todo)} :
       \E bootMAC \in {MacOf(run.interfaces, comp.ID)} :
       \E does \in {SyncNodeDoes(run.existing, comp, bootMAC, {})} :
          store' = IF refused THEN store
                   ELSE [store EXCEPT !.nodes = WrittenBy(@, does, comp, bootMAC)]
    /\ run' = IF Len(run.todo) = 1 THEN NoRun
              ELSE [run EXCEPT !.todo = Tail(@)]
    /\ UNCHANGED <<opLog, hsm, hsmCache, resolved, outsideRace>>

\* The run in progress has listed the store and has not yet come to the
\* node of this name.
InWindow(xname) ==
    /\ run.at = "loop"
    /\ \E k \in 1..Len(run.todo) : run.todo[k] = xname

\* The log after an operator's write: a write in the window is recorded, a
\* write outside takes the place of what was recorded.
Logged(xname, groups) ==
    IF InWindow(xname)
      THEN (xname :> groups) @@ opLog
      ELSE [x \in DOMAIN opLog \ {xname} |-> opLog[x]]

\* An operator assigns groups to a stored node through the CRUD layer.
OperatorUpdate(xname, groups) ==
    /\ ExistingOf(store.nodes, xname) # 0
    /\ store.nodes[ExistingOf(store.nodes, xname)].Groups # groups
    /\ store' = [store EXCEPT !.nodes[ExistingOf(store.nodes, xname)].Groups = groups]
    /\ opLog' = Logged(xname, groups)
    /\ UNCHANGED <<run, hsm, hsmCache, resolved, outsideRace>>

\* An operator creates a node that the store does not hold.
OperatorCreate(n) ==
    /\ ExistingOf(store.nodes, n.XName) = 0
    /\ store' = [store EXCEPT !.nodes = Append(@, n)]
    /\ opLog' = Logged(n.XName, n.Groups)
    /\ UNCHANGED <<run, hsm, hsmCache, resolved, outsideRace>>

\* An operator deletes a node.
OperatorDelete(i) ==
    /\ i \in 1..Len(store.nodes)
    /\ store' = [store EXCEPT !.nodes =
                    SubSeq(@, 1, i - 1) \o SubSeq(@, i + 1, Len(@))]
    /\ opLog' = [x \in DOMAIN opLog \ {store.nodes[i].XName} |-> opLog[x]]
    /\ UNCHANGED <<run, hsm, hsmCache, resolved, outsideRace>>

InitSyncRace ==
    /\ now = 0
    /\ NewScriptCache(2)
    /\ LockIdle
    /\ store \in {[up |-> TRUE, nodes |-> nodes] : nodes \in RaceStores}
    /\ hsm = [up |-> TRUE] @@ RaceInventory
    /\ hsmCache = NewHSMCache
    /\ resolved = NoResolution
    /\ GenIdle
    /\ ProviderIdle
    /\ WorkerIdle
    /\ MatchIdle
    /\ RaceIdle
    /\ FlightIdle
    /\ KeyIdle

NextSyncRace ==
    \/ RaceList
    \/ \E refused \in BOOLEAN : RaceSyncNode(refused)
    \/ \E xname \in SyncNames, groups \in OperatorGroups : OperatorUpdate(xname, groups)
    \/ \E n \in OperatorNodes : OperatorCreate(n)
    \/ \E i \in 1..Len(store.nodes) : OperatorDelete(i)

SpecSyncRace == InitSyncRace /\ [][NextSyncRace]_vars

----------------------------------------------------------------------------
(* Claims about a run with concurrent operators, checked under             *)
(* SpecSyncRace.                                                           *)

\* The stored nodes of a name.
NodesNamed(xname) == {k \in 1..Len(store.nodes) : store.nodes[k].XName = xname}

\* C28: what an operator wrote to a node between the run's listing of the
\* store and the run's own write for that node is still there after that
\* write, and a node an operator created in that window is stored once.
C28_OperatorWritesSurvive ==
    \A x \in DOMAIN opLog :
        /\ Cardinality(NodesNamed(x)) = 1
        /\ \A k \in NodesNamed(x) : store.nodes[k].Groups = opLog[x]

\* What the run does keep: a node it finds up to date in its listing is not
\* written, so an operator's write to such a node stays.
UpToDateNodeIsLeftAlone ==
    [][\A k \in 1..Len(store.nodes) :
         (/\ run.at = "loop"
          /\ run' # run
          /\ ExistingOf(run.existing, store.nodes[k].XName) # 0
          /\ \E comp \in run.components :
                /\ comp.ID = store.nodes[k].XName
                /\ ~needsUpdate(comp, MacOf(run.interfaces, comp.ID),
                       run.existing[ExistingOf(run.existing, comp.ID)]))
         => (Len(store'.nodes) >= k /\ store'.nodes[k] = store.nodes[k])]_vars

\* C36: an update Sync performs on an existing node changes only the fields
\* the provider supplies; the node's group memberships (and its hostname) are
\* the same after the update as before it.  Checked for the runs in whose
\* window no operator wrote: the groups below were assigned before the run
\* listed the store.  The NodeSpec of the UpdateNode request is built from
\* the HSM's data alone, with Groups: []string{} and no Hostname.
C36_UpdateKeepsGroups ==
    [][((\E refused \in BOOLEAN : RaceSyncNode(refused)) /\ opLog = <<>>) =>
          \A i \in 1..Len(store.nodes) :
              /\ i <= Len(store'.nodes)
              /\ store'.nodes[i].XName = store.nodes[i].XName
              /\ store'.nodes[i].Groups = store.nodes[i].Groups]_vars

----------------------------------------------------------------------------
(* GetComponents and ClearCache of the HSM client statement by statement,  *)
(* called from several goroutines.  A map is named by its position in      *)
(* `heap`; HSMClient.cache.components points to the last one.              *)

\* How often ClearCache is called.
MaxClears == 2

\* The map c.cache.components points to.
CurrentMap == Len(heap)

\* The client's cache as the other operations see it.
CacheOf(h) == [hsmCache EXCEPT !.components = h[Len(h)]]

\* GetComponents evaluates the arguments of c.cache.Get("all_components",
\* c.cache.components): the field is read before Get takes the lock.
FlightEvalGet(g) ==
    /\ flight[g].at = "idle"
    /\ flight' = [flight EXCEPT ![g] = [at |-> "Get", cacheMap |-> CurrentMap]]
    /\ UNCHANGED <<heap, lastFetch, resolveVars, outsideFlight>>

\* HSMCache.Get under the read lock, on the map it was given: a hit returns
\* the data; after a miss GetComponents sends its request.
FlightGet(g) ==
    /\ flight[g].at = "Get"
    /\ \E hit \in {HSMCacheGet(heap[flight[g].cacheMap], "all_components", now)} :
          flight' = [flight EXCEPT ![g] =
                        IF hit.found THEN NoFlight ELSE [at |-> "Do"]]
    /\ UNCHANGED <<heap, lastFetch, resolveVars, outsideFlight>>

\* httpClient.Do returns and the answer is decoded; GetComponents evaluates
\* the arguments of c.cache.Set("all_components", hsmResp.Components,
\* c.cache.components), again before Set takes the lock.  An HSM that does
\* not answer ends the call with an error.
FlightDo(g) ==
    /\ flight[g].at = "Do"
    /\ flight' = [flight EXCEPT ![g] =
                    IF ~hsm.up THEN NoFlight
                    ELSE [at |-> "Set", cacheMap |-> CurrentMap,
                          data |-> hsm.components]]
    /\ UNCHANGED <<heap, lastFetch, resolveVars, outsideFlight>>

\* HSMCache.Set under the write lock, into the map it was given.
FlightSet(g) ==
    /\ flight[g].at = "Set"
    /\ heap' = [heap EXCEPT ![flight[g].cacheMap] =
                   HSMCacheSet(@, "all_components", flight[g].data, now)]
    /\ hsmCache' = CacheOf(heap')
    /\ lastFetch' = [op |-> "Set", into |-> flight[g].cacheMap]
    /\ flight' = [flight EXCEPT ![g] = NoFlight]
    /\ UNCHANGED <<store, hsm, resolved, outsideFlight>>

\* HSMClient.ClearCache under the write lock: the field points to a new,
\* empty map; the old map stays with the calls that hold it.
FlightClearCache ==
    /\ Len(heap) <= MaxClears
    /\ heap' = Append(heap, <<>>)
    /\ hsmCache' = [components |-> <<>>, ethernetInterfaces |-> <<>>]
    /\ lastFetch' = NoFetch
    /\ UNCHANGED <<flight, store, hsm, resolved, outsideFlight>>

\* The HSM server starts or stops to answer.
FlightHSMOutage ==
    /\ hsm' = [hsm EXCEPT !.up = ~@]
    /\ UNCHANGED <<flightVars, store, hsmCache, resolved, outsideFlight>>

InitFlight ==
    /\ now = 0
    /\ NewScriptCache(2)
    /\ LockIdle
    /\ store = [up |-> TRUE, nodes |-> <<>>]
    /\ hsm \in {[up |-> TRUE] @@ inv : inv \in HSMInventories}
    /\ hsmCache = NewHSMCache
    /\ resolved = NoResolution
    /\ GenIdle
    /\ ProviderIdle
    /\ WorkerIdle
    /\ MatchIdle
    /\ RaceIdle
    /\ FlightIdle
    /\ KeyIdle

NextFlight ==
    \/ \E g \in Callers : FlightEvalGet(g)
    \/ \E g \in Callers : FlightGet(g)
    \/ \E g \in Callers : FlightDo(g)
    \/ \E g \in Callers : FlightSet(g)
    \/ FlightClearCache
    \/ FlightHSMOutage

SpecFlight == InitFlight /\ [][NextFlight]_vars

----------------------------------------------------------------------------
(* Claims about concurrent calls of the HSM client, checked under          *)
(* SpecFlight.                                                             *)

\* C29: the result of a fetch that Set stored after the last ClearCache
\* returned is in the map that lookups read, and the next lookup of its key
\* within the expiry finds it.
C29_FetchAfterClearIsFound ==
    lastFetch.op = "Set" =>
        /\ lastFetch.into = CurrentMap
        /\ HSMCacheGet(heap[CurrentMap], "all_components", now).found

\* What the lock does give: the client's cache is the current map, and no
\* map holds anything but answers of the HSM.
CurrentMapIsTheCache ==
    /\ hsmCache.components = heap[CurrentMap]
    /\ \A k \in 1..Len(heap) : \A key \in DOMAIN heap[k] :
          heap[k][key].Data = hsm.components

\* C30: of the callers that ask for the components while the entry is
\* missing or expired, at most one has a request to the HSM under way.
C30_AtMostOneRequestInFlight ==
    Cardinality({g \in Callers : flight[g].at \in {"Do", "Set"}}) <= 1

----------------------------------------------------------------------------
(* The cache key of a request: BootScriptController.generateCacheKey, as a *)
(* function of the identifier and the configuration name of the request.   *)

\* The identifiers and configuration names of the requests: those of
\* TestCacheKeyGeneration, the names the cache model uses, a MAC address and
\* names that contain the separator or read "default".
KeyIdentifiers ==
    {"", "node1", "x0c0s0b0n0", "n1", "n2", "n1:c1", "aa:bb:cc:dd:ee:ff",
     "default"}
KeyConfigNames ==
    {"", "config1", "compute-config", "c1", "default", ":", "n1:c1"}

\* A request arrives with its identifier and configuration name.
KeyRequest(identifier, configName) ==
    /\ keyed.op \in {"none", "key"}
    /\ keyed' = [op |-> "request", identifier |-> identifier,
                 configName |-> configName]
    /\ UNCHANGED outsideKey

\* The controller computes the cache key of the request.
CallGenerateCacheKey ==
    /\ keyed.op = "request"
    /\ keyed' = [op |-> "key", identifier |-> keyed.identifier,
                 configName |-> keyed.configName,
                 key |-> generateCacheKey(keyed.identifier, keyed.configName)]
    /\ UNCHANGED outsideKey

InitKey ==
    /\ now = 0
    /\ NewScriptCache(2)
    /\ LockIdle
    /\ ResolveIdle
    /\ GenIdle
    /\ ProviderIdle
    /\ WorkerIdle
    /\ MatchIdle
    /\ RaceIdle
    /\ FlightIdle
    /\ KeyIdle

NextKey ==
    \/ \E identifier \in KeyIdentifiers, configName \in KeyConfigNames :
          KeyRequest(identifier, configName)
    \/ CallGenerateCacheKey

SpecKey == InitKey /\ [][NextKey]_vars

\* C40: the cache key of a request is identifier + ":" + configName, where
\* configName is replaced by "default" when the request carries none;
\* ("x0c0s0b0n0", "compute-config") gives "x0c0s0b0n0:compute-config",
\* ("node1", "") gives "node1:default" and ("", "config1") gives ":config1".
C40_CacheKeyIsIdentifierColonConfig ==
    keyed.op = "key" =>
        /\ keyed.configName # "" =>
              keyed.key = keyed.identifier \o ":" \o keyed.configName
        /\ keyed.configName = "" =>
              keyed.key = keyed.identifier \o ":default"
        /\ (keyed.identifier = "x0c0s0b0n0"
              /\ keyed.configName = "compute-config") =>
              keyed.key = "x0c0s0b0n0:compute-config"
        /\ (keyed.identifier = "node1" /\ keyed.configName = "") =>
              keyed.key = "node1:default"
        /\ (keyed.identifier = "" /\ keyed.configName = "config1") =>
              keyed.key = ":config1"

\* The key of a request that carries an identifier and no configuration
\* name.
C40_Witness ==
    /\ keyed.op = "key"
    /\ keyed.identifier = "node1"
    /\ keyed.configName = ""
    /\ keyed.key = "node1:default"

============================================================================
